---- MODULE Spec2Model ----
(***************************************************************************)
(* Feature-flag manager of @stravigor/flag: the static FlagManager         *)
(* (definition registries, resolution cache), the in-memory ArrayDriver    *)
(* store and the operations on them.  Strings are sequences of one-        *)
(* character strings, so that keys are built and matched as the code       *)
(* builds and matches them.                                                *)
(***************************************************************************)
EXTENDS Integers, Sequences, FiniteSets, TLC

VARIABLES
  definitions,    \* FlagManager._definitions : name -> resolver
  classFeatures,  \* FlagManager._classFeatures : key -> class constructor
  cache,          \* FlagManager._cache : cache key -> value
  data,           \* ArrayDriver.data of the default store : key -> record
  now,            \* the wall clock read by new Date()
  written,        \* <<feature, scope key>> -> value of the latest explicit
                  \* write (activate, deactivate) not removed since
  config,         \* FlagManager._config
  stores,         \* FlagManager._stores : driver name -> store instance
  extensions,     \* FlagManager._extensions : driver kind -> factory
  made,           \* how many store instances have been created so far
  order,          \* the keys of data in the order in which the Map iterates
  callsMade       \* the manager calls started so far, each where it stands

vars == <<definitions, classFeatures, cache, data, now, written,
          config, stores, extensions, made, order, callsMade>>

(***************************************************************************)
(* Bounds of the model.                                                    *)
(***************************************************************************)
MaxBatch == 2     \* longest features list handed to values() and load()
MaxScopes == 1    \* longest scopes list handed to load()
MaxStored == 2    \* most records the store is let to hold
MaxInstances == 2 \* most store instances that are created
MaxTime == 2      \* latest time the clock is let to show
MaxCalls == 2     \* most calls that are started where calls overlap

(***************************************************************************)
(* JavaScript values.  undefined is a value of its own: a resolver may     *)
(* return it and a Map may hold it.                                        *)
(***************************************************************************)
JsUndefined == "undefined"
JsNull == "null"
JsTrue == "true"
JsFalse == "false"
JsVariant == "variant-a"

JsValues == {JsTrue, JsFalse, JsUndefined, JsNull, JsVariant}

\* the number 0, the empty string, an object
JsZero == "0"
JsEmptyString == ""
JsObject == "{}"

\* the kinds of value that JavaScript's boolean coercion tells apart
JsAllValues == JsValues \cup {JsZero, JsEmptyString, JsObject}

\* Boolean(v) and the truthiness test of `value ? ... : ...`
Truthy(v) == v \notin {JsFalse, JsZero, JsEmptyString, JsNull, JsUndefined}

(***************************************************************************)
(* Strings.                                                                *)
(***************************************************************************)
NUL == "\\0"

GLOBAL_SCOPE == <<"_", "_", "g", "l", "o", "b", "a", "l", "_", "_">>

\* String.prototype.startsWith
StartsWith(s, prefix) ==
  /\ Len(prefix) <= Len(s)
  /\ SubSeq(s, 1, Len(prefix)) = prefix

DigitChars == <<"0", "1", "2", "3", "4", "5", "6", "7", "8", "9">>

\* the decimal text a template literal gives a non-negative integer
RECURSIVE DecimalString(_)
DecimalString(n) ==
  IF n < 10 THEN <<DigitChars[n + 1]>>
  ELSE DecimalString(n \div 10) \o <<DigitChars[(n % 10) + 1]>>

\* `${scope.id}` : id is a string or a number
TemplateString(id) ==
  IF id.type = "number" THEN DecimalString(id.n) ELSE id.s

\* s.split(sep)[1]: the text between the first and the second sep; <<>>
\* stands for undefined when s holds no sep
RECURSIVE UpTo(_, _)
UpTo(s, sep) ==
  IF s = <<>> \/ Head(s) = sep THEN <<>>
  ELSE <<Head(s)>> \o UpTo(Tail(s), sep)

SecondPart(s, sep) ==
  LET first == UpTo(s, sep)
  IN IF Len(first) = Len(s) THEN <<>>
     ELSE UpTo(SubSeq(s, Len(first) + 2, Len(s)), sep)

DigitValue(ch) == CHOOSE n \in 0..9 : DigitChars[n + 1] = ch

\* parseInt(text) of a text without sign or blanks: the number its leading
\* digits spell, NaN when it starts with none
RECURSIVE LeadingNumber(_, _)
LeadingNumber(text, acc) ==
  IF text = <<>> \/ Head(text) \notin {DigitChars[i] : i \in DOMAIN DigitChars}
  THEN acc
  ELSE LeadingNumber(Tail(text), 10 * acc + DigitValue(Head(text)))

ParseInt(text) ==
  IF text = <<>> \/ Head(text) \notin {DigitChars[i] : i \in DOMAIN DigitChars}
  THEN [nan |-> TRUE, n |-> 0]
  ELSE [nan |-> FALSE, n |-> LeadingNumber(text, 0)]

(***************************************************************************)
(* JavaScript Map: has / get / set / delete / keys.                        *)
(***************************************************************************)
EmptyMap == <<>>

MapHas(m, k) == k \in DOMAIN m

MapGet(m, k) == IF k \in DOMAIN m THEN m[k] ELSE JsUndefined

MapSet(m, k, v) == [x \in DOMAIN m \cup {k} |-> IF x = k THEN v ELSE m[x]]

MapDelete(m, k) == [x \in DOMAIN m \ {k} |-> m[x]]

MapKeys(m) == DOMAIN m

(***************************************************************************)
(* Scopes (types.ts Scopeable) and the scope codec.                        *)
(***************************************************************************)
NullScope == [tag |-> "null"]
UndefinedScope == [tag |-> "undefined"]

\* a scope object with a featureScope() method, as the tests' mockScope builds
ScopeWithMethod(type, id) ==
  [tag |-> "object", id |-> id, hasFeatureScope |-> TRUE,
   featureScope |-> type, constructorName |-> <<"O", "b", "j", "e", "c", "t">>]

\* an instance of a class with no featureScope()
ScopeOfClass(className, id) ==
  [tag |-> "object", id |-> id, hasFeatureScope |-> FALSE,
   featureScope |-> <<>>, constructorName |-> className]

NumberId(n) == [type |-> "number", n |-> n, s |-> <<>>]
StringId(s) == [type |-> "string", n |-> 0, s |-> s]

\* a serializeScope that always takes the constructor's name
serializeScopeByClass(scope) ==
  IF scope.tag # "object" THEN GLOBAL_SCOPE
  ELSE scope.constructorName \o <<":">> \o TemplateString(scope.id)

serializeScope(scope) ==
  IF scope.tag # "object" THEN GLOBAL_SCOPE
  ELSE LET type == IF scope.hasFeatureScope THEN scope.featureScope
                   ELSE scope.constructorName
       IN type \o <<":">> \o TemplateString(scope.id)

cacheKey(feature, scope) == feature \o <<NUL>> \o scope

(***************************************************************************)
(* Resolvers.  A resolver is opaque code; the model keeps what decides its *)
(* results.  define(name, boolean) wraps the literal into () => val.       *)
(***************************************************************************)
\* the boolean literal handed to define(name, true | false)
BooleanLiteral(val) == [kind |-> "boolean", val |-> val]

\* () => val
ConstantResolver(val) == [kind |-> "constant", val |-> val]

\* a closure whose result may differ from call to call
AnyResolver == [kind |-> "any", val |-> JsUndefined]

\* a closure whose result is true at one call and false at another
EitherResolver == [kind |-> "either", val |-> JsUndefined]

\* (scope) => { if (scope === '__global__') return false
\*              const id = parseInt(scope.split(':')[1]); return id % 10 === 0 }
RolloutResolver == [kind |-> "rollout", val |-> JsUndefined]

RolloutResult(scope) ==
  LET id == ParseInt(SecondPart(scope, ":"))
  IN IF scope = GLOBAL_SCOPE \/ id.nan THEN JsFalse
     ELSE IF id.n % 10 = 0 THEN JsTrue ELSE JsFalse

\* the results a call resolver(scope) can have
Returns(resolver, scope) ==
  IF resolver.kind = "constant" THEN {resolver.val}
  ELSE IF resolver.kind = "rollout" THEN {RolloutResult(scope)}
  ELSE IF resolver.kind = "either" THEN {JsTrue, JsFalse}
  ELSE JsValues

\* FlagManager.define
define(defs, name, resolver) ==
  IF resolver.kind = "boolean"
  THEN MapSet(defs, name, ConstantResolver(resolver.val))
  ELSE MapSet(defs, name, resolver)

(***************************************************************************)
(* toKebab(name) of flag_manager.ts.                                       *)
(***************************************************************************)
LowerChars == <<"a", "b", "c", "d", "e", "f", "g", "h", "i", "j", "k", "l", "m",
                "n", "o", "p", "q", "r", "s", "t", "u", "v", "w", "x", "y", "z">>
UpperChars == <<"A", "B", "C", "D", "E", "F", "G", "H", "I", "J", "K", "L", "M",
                "N", "O", "P", "Q", "R", "S", "T", "U", "V", "W", "X", "Y", "Z">>

IsLower(c) == \E i \in DOMAIN LowerChars : LowerChars[i] = c
IsUpper(c) == \E i \in DOMAIN UpperChars : UpperChars[i] = c
IsSpaceOrUnderscore(c) == c \in {" ", "\t", "\n", "_"}

ToLowerChar(c) ==
  IF IsUpper(c)
  THEN LowerChars[CHOOSE i \in DOMAIN UpperChars : UpperChars[i] = c]
  ELSE c

\* .replace(/([a-z])([A-Z])/g, '$1-$2')
RECURSIVE HyphenateCamel(_)
HyphenateCamel(s) ==
  IF Len(s) < 2 THEN s
  ELSE IF IsLower(s[1]) /\ IsUpper(s[2])
       THEN <<s[1], "-", s[2]>> \o HyphenateCamel(Tail(Tail(s)))
       ELSE <<s[1]>> \o HyphenateCamel(Tail(s))

\* .replace(/[\s_]+/g, '-')
RECURSIVE HyphenateRuns(_)
HyphenateRuns(s) ==
  IF s = <<>> THEN s
  ELSE IF IsSpaceOrUnderscore(s[1])
       THEN IF Len(s) >= 2 /\ IsSpaceOrUnderscore(s[2])
            THEN HyphenateRuns(Tail(s))
            ELSE <<"-">> \o HyphenateRuns(Tail(s))
       ELSE <<s[1]>> \o HyphenateRuns(Tail(s))

\* .toLowerCase()
ToLowerCase(s) == [i \in DOMAIN s |-> ToLowerChar(s[i])]

toKebab(name) == ToLowerCase(HyphenateRuns(HyphenateCamel(name)))

\* a class constructor: its static key (if any), its name, what resolve() does
FeatureClass(hasKey, key, name, resolver) ==
  [hasKey |-> hasKey, key |-> key, name |-> name, resolve |-> resolver]

\* FlagManager.defineClass
defineClass(cls, feature) ==
  LET key == IF feature.hasKey THEN feature.key ELSE toKebab(feature.name)
  IN MapSet(cls, key, feature)

\* FlagManager.defined: [...definitions.keys(), ...classFeatures.keys()],
\* told by how often the list holds each name
defined(defs, cls) ==
  [name \in MapKeys(defs) \cup MapKeys(cls) |->
     (IF MapHas(defs, name) THEN 1 ELSE 0) + (IF MapHas(cls, name) THEN 1 ELSE 0)]

\* the length of that list
definedLength(defs, cls) == Cardinality(MapKeys(defs)) + Cardinality(MapKeys(cls))

\* a resolveFeature that tries the class-based definition first
resolveFeatureClassFirst(defs, cls, feature) ==
  IF MapHas(cls, feature)
  THEN [threw |-> FALSE, via |-> "class", resolver |-> cls[feature].resolve]
  ELSE IF MapHas(defs, feature)
       THEN [threw |-> FALSE, via |-> "closure", resolver |-> defs[feature]]
       ELSE [threw |-> TRUE, via |-> "none", resolver |-> AnyResolver]

\* a resolveFeature that falls back to `() => false` instead of throwing
resolveFeatureOrDefault(defs, cls, feature) ==
  IF MapHas(defs, feature)
  THEN [threw |-> FALSE, via |-> "closure", resolver |-> defs[feature]]
  ELSE IF MapHas(cls, feature)
       THEN [threw |-> FALSE, via |-> "class", resolver |-> cls[feature].resolve]
       ELSE [threw |-> FALSE, via |-> "none", resolver |-> ConstantResolver(JsFalse)]

\* FlagManager.resolveFeature: the resolver that is called, or the throw
resolveFeature(defs, cls, feature) ==
  IF MapHas(defs, feature)
  THEN [threw |-> FALSE, via |-> "closure", resolver |-> defs[feature]]
  ELSE IF MapHas(cls, feature)
       THEN [threw |-> FALSE, via |-> "class", resolver |-> cls[feature].resolve]
       ELSE [threw |-> TRUE, via |-> "none", resolver |-> AnyResolver]

(***************************************************************************)
(* ArrayDriver (drivers/array_driver.ts): data is a Map from key to        *)
(* {value, createdAt, updatedAt}.                                          *)
(***************************************************************************)
ArrayDriver_key(feature, scope) == feature \o <<NUL>> \o scope

\* this.data.get(key)?.value
ArrayDriver_get(d, feature, scope) ==
  LET k == ArrayDriver_key(feature, scope)
  IN IF MapHas(d, k) THEN d[k].value ELSE JsUndefined

\* the Map getMany returns, over the requested features
ArrayDriver_getMany(d, features, scope) ==
  LET found == {features[i] : i \in {j \in DOMAIN features :
                   MapHas(d, ArrayDriver_key(features[j], scope))}}
  IN [f \in found |-> d[ArrayDriver_key(f, scope)].value]

\* a set that writes a record anew, with a new createdAt
ArrayDriver_setAnew(d, feature, scope, value, date) ==
  MapSet(d, ArrayDriver_key(feature, scope),
         [value |-> value, createdAt |-> date, updatedAt |-> date])

ArrayDriver_set(d, feature, scope, value, date) ==
  LET k == ArrayDriver_key(feature, scope)
  IN MapSet(d, k, [value |-> value,
                   createdAt |-> IF MapHas(d, k) THEN d[k].createdAt ELSE date,
                   updatedAt |-> date])

ArrayDriver_forget(d, feature, scope) ==
  MapDelete(d, ArrayDriver_key(feature, scope))

ArrayDriver_purge(d, feature) ==
  [k \in {x \in MapKeys(d) : ~StartsWith(x, feature \o <<NUL>>)} |-> d[k]]

ArrayDriver_purgeAll(d) == EmptyMap

\* key.split('\0')[0]
RECURSIVE BeforeNul(_)
BeforeNul(key) ==
  IF key = <<>> \/ Head(key) = NUL THEN <<>>
  ELSE <<Head(key)>> \o BeforeNul(Tail(key))

\* the elements of a list
Range(list) == {list[i] : i \in DOMAIN list}

\* A Map iterates its keys in insertion order: a key that stays keeps its
\* place, also when its value is set again; a key that is set while absent
\* goes to the end.  keys is the order before a call, d the data after it,
\* sets the keys the call has set, in the order in which it set them.
RECURSIVE Inserted(_, _, _)
Inserted(kept, d, sets) ==
  IF sets = <<>> THEN kept
  ELSE Inserted(IF Head(sets) \in DOMAIN d /\ Head(sets) \notin Range(kept)
                THEN Append(kept, Head(sets))
                ELSE kept,
                d, Tail(sets))

Iteration(keys, d, sets) ==
  LET stays(k) == k \in DOMAIN d
  IN Inserted(SelectSeq(keys, stays), d, sets)

\* names.add(...) for each key in turn, then [...names]: a Set iterates in
\* insertion order too
RECURSIVE NamesOf(_, _)
NamesOf(keys, names) ==
  IF keys = <<>> THEN names
  ELSE NamesOf(Tail(keys),
               IF BeforeNul(Head(keys)) \in Range(names) THEN names
               ELSE Append(names, BeforeNul(Head(keys))))

\* ArrayDriver.featureNames, on the data and the iteration order of its keys
ArrayDriver_featureNames(d, keys) ==
  LET present(k) == k \in MapKeys(d)
  IN NamesOf(SelectSeq(keys, present), <<>>)

(***************************************************************************)
(* What a manager call has done so far: the cache and the store's data as  *)
(* it leaves them, how it ended, what it returned, the resolver calls it   *)
(* made, the store calls it made and the notifications it emitted.         *)
(* A store call may throw (the FeatureStore contract is asynchronous I/O): *)
(* fail is the position, among the store calls of the manager call, of the *)
(* one that throws; 0 when none does.                                      *)
(***************************************************************************)
Outcome(c, d, outcome, ret, invoked, storeCalls, events) ==
  [cache |-> c, data |-> d, outcome |-> outcome, ret |-> ret,
   invoked |-> invoked, storeCalls |-> storeCalls, events |-> events]

Invocation(feature, scope, via, result) ==
  [feature |-> feature, scope |-> scope, via |-> via, result |-> result]

\* Emitter.emit('flag:resolved' | 'flag:updated', {feature, scope, value})
ValueEvent(name, feature, scope, value) ==
  [name |-> name, feature |-> feature, scope |-> scope, value |-> value]

\* Emitter.emit('flag:deleted', {feature, scope})
DeletedEvent(feature, scope) ==
  [name |-> "flag:deleted", feature |-> feature, scope |-> scope]

Star == <<"*">>

\* whether the next store call of a manager call is the one that throws
Throws(storeCalls, fail) == Len(storeCalls) + 1 = fail

\* a hit test on the cached value instead of on its presence
cacheHitTruthy(c, ck) == MapHas(c, ck) /\ Truthy(c[ck])

\* FlagManager._cache.has(cacheKey)
cacheHit(c, ck) == MapHas(c, ck)

\* a persist that sets the cache before the store answers
persistCacheFirst(c, d, feature, scopeKey, val, thrown, date) ==
  [cache |-> MapSet(c, cacheKey(feature, scopeKey), val),
   data |-> IF thrown THEN d ELSE ArrayDriver_set(d, feature, scopeKey, val, date)]

\* await store.set(feature, scopeKey, value); FlagManager._cache.set(cacheKey, value)
persist(c, d, feature, scopeKey, val, thrown, date) ==
  IF thrown
  THEN [cache |-> c, data |-> d]
  ELSE [cache |-> MapSet(c, cacheKey(feature, scopeKey), val),
        data |-> ArrayDriver_set(d, feature, scopeKey, val, date)]

\* FlagManager.value
value(c, d, defs, cls, feature, scope, rv, fail, date) ==
  LET scopeKey == serializeScope(scope)
      ck == cacheKey(feature, scopeKey)
      stored == ArrayDriver_get(d, feature, scopeKey)
      r == resolveFeature(defs, cls, feature)
      call == <<Invocation(feature, scopeKey, r.via, rv)>>
      p == persist(c, d, feature, scopeKey, rv, fail = 2, date)
  IN IF cacheHit(c, ck)
     THEN Outcome(c, d, "ok", MapGet(c, ck), <<>>, <<>>, <<>>)
     ELSE IF fail = 1
     THEN Outcome(c, d, "StoreError", JsUndefined, <<>>, <<"get">>, <<>>)
     ELSE IF stored # JsUndefined
     THEN Outcome(MapSet(c, ck, stored), d, "ok", stored, <<>>, <<"get">>, <<>>)
     ELSE IF r.threw
     THEN Outcome(c, d, "FeatureNotDefinedError", JsUndefined, <<>>, <<"get">>, <<>>)
     ELSE IF fail = 2
     THEN Outcome(p.cache, p.data, "StoreError", JsUndefined, call,
                  <<"get", "set">>, <<>>)
     ELSE Outcome(p.cache, p.data, "ok", rv, call, <<"get", "set">>,
                  <<ValueEvent("flag:resolved", feature, scopeKey, rv)>>)

\* an active that compares with true
activeIfTrue(c, d, defs, cls, feature, scope, rv, fail, date) ==
  LET v == value(c, d, defs, cls, feature, scope, rv, fail, date)
  IN IF v.outcome = "ok"
     THEN [v EXCEPT !.ret = IF v.ret = JsTrue THEN JsTrue ELSE JsFalse]
     ELSE v

\* FlagManager.active
active(c, d, defs, cls, feature, scope, rv, fail, date) ==
  LET v == value(c, d, defs, cls, feature, scope, rv, fail, date)
  IN IF v.outcome = "ok"
     THEN [v EXCEPT !.ret = IF Truthy(v.ret) THEN JsTrue ELSE JsFalse]
     ELSE v

\* FlagManager.inactive
inactive(c, d, defs, cls, feature, scope, rv, fail, date) ==
  LET a == active(c, d, defs, cls, feature, scope, rv, fail, date)
  IN IF a.outcome = "ok"
     THEN [a EXCEPT !.ret = IF a.ret = JsTrue THEN JsFalse ELSE JsTrue]
     ELSE a

\* a call of one of the callbacks of when, and what when returns: the result
\* of that call
CallbackCall(callback, args) == [callback |-> callback, args |-> args]
Dispatch(calls) == [calls |-> calls, result |-> [resultOf |-> calls[Len(calls)]]]

\* a when that hands nothing to onActive
whenWithoutValue(c, d, defs, cls, feature, scope, rv, fail, date) ==
  LET v == value(c, d, defs, cls, feature, scope, rv, fail, date)
  IN IF v.outcome = "ok"
     THEN [v EXCEPT !.ret = IF Truthy(v.ret)
                            THEN Dispatch(<<CallbackCall("onActive", <<>>)>>)
                            ELSE Dispatch(<<CallbackCall("onInactive", <<>>)>>)]
     ELSE v

\* FlagManager.when: the callback calls it makes, and its result
when(c, d, defs, cls, feature, scope, rv, fail, date) ==
  LET v == value(c, d, defs, cls, feature, scope, rv, fail, date)
  IN IF v.outcome = "ok"
     THEN [v EXCEPT !.ret = IF Truthy(v.ret)
                            THEN Dispatch(<<CallbackCall("onActive", <<v.ret>>)>>)
                            ELSE Dispatch(<<CallbackCall("onInactive", <<>>)>>)]
     ELSE v

\* an activate that writes the store and leaves the cache as it is
activateAtStoreOnly(c, d, feature, val, scopeKey, fail, date) ==
  LET resolved == IF val # JsUndefined THEN val ELSE JsTrue
  IN IF fail = 1
     THEN Outcome(c, d, "StoreError", JsUndefined, <<>>, <<"set">>, <<>>)
     ELSE Outcome(c, ArrayDriver_set(d, feature, scopeKey, resolved, date), "ok",
                  JsUndefined, <<>>, <<"set">>,
                  <<ValueEvent("flag:updated", feature, scopeKey, resolved)>>)

\* activate, once the scope is serialized
activateAt(c, d, feature, val, scopeKey, fail, date) ==
  LET resolved == IF val # JsUndefined THEN val ELSE JsTrue
      p == persist(c, d, feature, scopeKey, resolved, fail = 1, date)
  IN IF fail = 1
     THEN Outcome(p.cache, p.data, "StoreError", JsUndefined, <<>>, <<"set">>, <<>>)
     ELSE Outcome(p.cache, p.data, "ok", JsUndefined, <<>>, <<"set">>,
                  <<ValueEvent("flag:updated", feature, scopeKey, resolved)>>)

\* an activate that drops its scope
activateGlobally(c, d, feature, val, scope, fail, date) ==
  activateAt(c, d, feature, val, GLOBAL_SCOPE, fail, date)

\* FlagManager.activate
activate(c, d, feature, val, scope, fail, date) ==
  activateAt(c, d, feature, val, serializeScope(scope), fail, date)

\* FlagManager.deactivate
deactivate(c, d, feature, scope, fail, date) ==
  LET scopeKey == serializeScope(scope)
      p == persist(c, d, feature, scopeKey, JsFalse, fail = 1, date)
  IN IF fail = 1
     THEN Outcome(p.cache, p.data, "StoreError", JsUndefined, <<>>, <<"set">>, <<>>)
     ELSE Outcome(p.cache, p.data, "ok", JsUndefined, <<>>, <<"set">>,
                  <<ValueEvent("flag:updated", feature, scopeKey, JsFalse)>>)

\* FlagManager.activateForEveryone
activateForEveryone(c, d, feature, val, fail, date) ==
  activate(c, d, feature, val, UndefinedScope, fail, date)

\* FlagManager.deactivateForEveryone
deactivateForEveryone(c, d, feature, fail, date) ==
  deactivate(c, d, feature, UndefinedScope, fail, date)

\* a forget that drops every scope of the feature
forgetEveryScope(c, d, feature, scope, fail) ==
  IF fail = 1
  THEN Outcome(c, d, "StoreError", JsUndefined, <<>>, <<"forget">>, <<>>)
  ELSE Outcome([k \in {x \in MapKeys(c) : ~StartsWith(x, feature \o <<NUL>>)}
                  |-> c[k]],
               ArrayDriver_purge(d, feature),
               "ok", JsUndefined, <<>>, <<"forget">>,
               <<DeletedEvent(feature, serializeScope(scope))>>)

\* a forget that deletes the store record and keeps the cache entry
forgetStoreOnly(c, d, feature, scope, fail) ==
  LET scopeKey == serializeScope(scope)
  IN IF fail = 1
     THEN Outcome(c, d, "StoreError", JsUndefined, <<>>, <<"forget">>, <<>>)
     ELSE Outcome(c, ArrayDriver_forget(d, feature, scopeKey),
                  "ok", JsUndefined, <<>>, <<"forget">>,
                  <<DeletedEvent(feature, scopeKey)>>)

\* a forget that announces a deletion only when a record was stored
forgetIfStored(c, d, feature, scope, fail) ==
  LET scopeKey == serializeScope(scope)
  IN IF fail = 1
     THEN Outcome(c, d, "StoreError", JsUndefined, <<>>, <<"forget">>, <<>>)
     ELSE Outcome(MapDelete(c, cacheKey(feature, scopeKey)),
                  ArrayDriver_forget(d, feature, scopeKey),
                  "ok", JsUndefined, <<>>, <<"forget">>,
                  IF MapHas(d, ArrayDriver_key(feature, scopeKey))
                  THEN <<DeletedEvent(feature, scopeKey)>> ELSE <<>>)

\* FlagManager.forget
forget(c, d, feature, scope, fail) ==
  LET scopeKey == serializeScope(scope)
  IN IF fail = 1
     THEN Outcome(c, d, "StoreError", JsUndefined, <<>>, <<"forget">>, <<>>)
     ELSE Outcome(MapDelete(c, cacheKey(feature, scopeKey)),
                  ArrayDriver_forget(d, feature, scopeKey),
                  "ok", JsUndefined, <<>>, <<"forget">>,
                  <<DeletedEvent(feature, scopeKey)>>)

\* a purge that sweeps by the bare name, without the separator
purgeByName(c, d, feature, fail) ==
  IF fail = 1
  THEN Outcome(c, d, "StoreError", JsUndefined, <<>>, <<"purge">>, <<>>)
  ELSE Outcome([k \in {x \in MapKeys(c) : ~StartsWith(x, feature)} |-> c[k]],
               [k \in {x \in MapKeys(d) : ~StartsWith(x, feature)} |-> d[k]],
               "ok", JsUndefined, <<>>, <<"purge">>,
               <<DeletedEvent(feature, Star)>>)

\* a purge that deletes the store records and keeps the cache
purgeStoreOnly(c, d, feature, fail) ==
  IF fail = 1
  THEN Outcome(c, d, "StoreError", JsUndefined, <<>>, <<"purge">>, <<>>)
  ELSE Outcome(c, ArrayDriver_purge(d, feature), "ok", JsUndefined, <<>>,
               <<"purge">>, <<DeletedEvent(feature, Star)>>)

\* FlagManager.purge
purge(c, d, feature, fail) ==
  IF fail = 1
  THEN Outcome(c, d, "StoreError", JsUndefined, <<>>, <<"purge">>, <<>>)
  ELSE Outcome([k \in {x \in MapKeys(c) : ~StartsWith(x, feature \o <<NUL>>)}
                  |-> c[k]],
               ArrayDriver_purge(d, feature),
               "ok", JsUndefined, <<>>, <<"purge">>,
               <<DeletedEvent(feature, Star)>>)

\* a purgeAll that clears the store and keeps the cache
purgeAllStoreOnly(c, d, fail) ==
  IF fail = 1
  THEN Outcome(c, d, "StoreError", JsUndefined, <<>>, <<"purgeAll">>, <<>>)
  ELSE Outcome(c, ArrayDriver_purgeAll(d), "ok", JsUndefined, <<>>,
               <<"purgeAll">>, <<DeletedEvent(Star, Star)>>)

\* FlagManager.purgeAll
purgeAll(c, d, fail) ==
  IF fail = 1
  THEN Outcome(c, d, "StoreError", JsUndefined, <<>>, <<"purgeAll">>, <<>>)
  ELSE Outcome(EmptyMap, ArrayDriver_purgeAll(d), "ok", JsUndefined, <<>>,
               <<"purgeAll">>, <<DeletedEvent(Star, Star)>>)

\* FlagManager.flushCache
flushCache(c) == EmptyMap

\* FlagManager.stored
FlagManager_stored(c, d, keys, fail) ==
  IF fail = 1
  THEN Outcome(c, d, "StoreError", JsUndefined, <<>>, <<"featureNames">>, <<>>)
  ELSE Outcome(c, d, "ok", ArrayDriver_featureNames(d, keys), <<>>,
               <<"featureNames">>, <<>>)

(***************************************************************************)
(* Batch operations.  rvs lists the results of the resolver calls of one   *)
(* manager call, in the order in which it makes them.                      *)
(***************************************************************************)
\* for (const f of fs) if (stored.has(f)) FlagManager._cache.set(cacheKey(f), stored.get(f))
RECURSIVE cacheStored(_, _, _, _)
cacheStored(c, fs, stored, scopeKey) ==
  IF fs = <<>> THEN c
  ELSE cacheStored(IF Head(fs) \in DOMAIN stored
                   THEN MapSet(c, cacheKey(Head(fs), scopeKey), stored[Head(fs)])
                   ELSE c,
                   Tail(fs), stored, scopeKey)

\* the loop over stillMissing of FlagManager.values
RECURSIVE resolveStillMissing(_, _, _, _, _, _, _, _)
resolveStillMissing(st, defs, cls, todo, scopeKey, rvs, fail, date) ==
  IF todo = <<>> THEN st
  ELSE LET f == Head(todo)
           r == resolveFeature(defs, cls, f)
           rv == rvs[Len(st.invoked) + 1]
           thrown == Throws(st.storeCalls, fail)
           p == persist(st.cache, st.data, f, scopeKey, rv, thrown, date)
           called == [st EXCEPT !.cache = p.cache, !.data = p.data,
                                !.invoked = Append(@, Invocation(f, scopeKey, r.via, rv)),
                                !.storeCalls = Append(@, "set")]
       IN IF r.threw
          THEN [st EXCEPT !.outcome = "FeatureNotDefinedError", !.ret = JsUndefined]
          ELSE IF thrown
          THEN [called EXCEPT !.outcome = "StoreError", !.ret = JsUndefined]
          ELSE resolveStillMissing(
                 [called EXCEPT !.ret = MapSet(@, f, rv),
                                !.events = Append(@, ValueEvent("flag:resolved", f, scopeKey, rv))],
                 defs, cls, Tail(todo), scopeKey, rvs, fail, date)

\* a values that resolves every cache miss without asking the store for it
valuesPastTheStore(c, d, defs, cls, features, scope, rvs, fail, date) ==
  LET scopeKey == serializeScope(scope)
      hit(f) == cacheHit(c, cacheKey(f, scopeKey))
      hits == {features[i] : i \in {j \in DOMAIN features : hit(features[j])}}
      result == [f \in hits |-> MapGet(c, cacheKey(f, scopeKey))]
      misses == SelectSeq(features, LAMBDA f : ~hit(f))
  IN IF misses = <<>>
     THEN Outcome(c, d, "ok", result, <<>>, <<>>, <<>>)
     ELSE IF fail = 1
     THEN Outcome(c, d, "StoreError", JsUndefined, <<>>, <<"getMany">>, <<>>)
     ELSE resolveStillMissing(
            Outcome(c, d, "ok", result, <<>>, <<"getMany">>, <<>>),
            defs, cls, misses, scopeKey, rvs, fail, date)

\* FlagManager.values
values(c, d, defs, cls, features, scope, rvs, fail, date) ==
  LET scopeKey == serializeScope(scope)
      hit(f) == cacheHit(c, cacheKey(f, scopeKey))
      hits == {features[i] : i \in {j \in DOMAIN features : hit(features[j])}}
      result == [f \in hits |-> MapGet(c, cacheKey(f, scopeKey))]
      misses == SelectSeq(features, LAMBDA f : ~hit(f))
      stored == ArrayDriver_getMany(d, misses, scopeKey)
      stillMissing == SelectSeq(misses, LAMBDA f : f \notin DOMAIN stored)
      fromStore == [f \in DOMAIN result \cup DOMAIN stored |->
                      IF f \in DOMAIN stored THEN stored[f] ELSE result[f]]
  IN IF misses = <<>>
     THEN Outcome(c, d, "ok", result, <<>>, <<>>, <<>>)
     ELSE IF fail = 1
     THEN Outcome(c, d, "StoreError", JsUndefined, <<>>, <<"getMany">>, <<>>)
     ELSE resolveStillMissing(
            Outcome(cacheStored(c, misses, stored, scopeKey), d, "ok", fromStore,
                    <<>>, <<"getMany">>, <<>>),
            defs, cls, stillMissing, scopeKey, rvs, fail, date)

\* the loop `for (const f of features) if (!stored.has(f))` of FlagManager.load
RECURSIVE resolveUnstored(_, _, _, _, _, _, _, _)
resolveUnstored(st, defs, cls, todo, scopeKey, rvs, fail, date) ==
  IF todo = <<>> THEN st
  ELSE LET f == Head(todo)
           r == resolveFeature(defs, cls, f)
           rv == rvs[Len(st.invoked) + 1]
           thrown == Throws(st.storeCalls, fail)
           p == persist(st.cache, st.data, f, scopeKey, rv, thrown, date)
           called == [st EXCEPT !.cache = p.cache, !.data = p.data,
                                !.invoked = Append(@, Invocation(f, scopeKey, r.via, rv)),
                                !.storeCalls = Append(@, "set")]
       IN IF r.threw
          THEN [st EXCEPT !.outcome = "FeatureNotDefinedError"]
          ELSE IF thrown
          THEN [called EXCEPT !.outcome = "StoreError"]
          ELSE resolveUnstored(called, defs, cls, Tail(todo), scopeKey, rvs, fail, date)

\* the loop `for (const scope of scopes)` of FlagManager.load
RECURSIVE loadScopes(_, _, _, _, _, _, _, _)
loadScopes(st, defs, cls, features, scopes, rvs, fail, date) ==
  IF scopes = <<>> \/ st.outcome # "ok" THEN st
  ELSE LET scopeKey == serializeScope(Head(scopes))
           thrown == Throws(st.storeCalls, fail)
           stored == ArrayDriver_getMany(st.data, features, scopeKey)
           read == [st EXCEPT !.storeCalls = Append(@, "getMany")]
           unstored == SelectSeq(features, LAMBDA f : f \notin DOMAIN stored)
       IN IF thrown
          THEN [read EXCEPT !.outcome = "StoreError"]
          ELSE loadScopes(
                 resolveUnstored(
                   [read EXCEPT !.cache = cacheStored(@, features, stored, scopeKey)],
                   defs, cls, unstored, scopeKey, rvs, fail, date),
                 defs, cls, features, Tail(scopes), rvs, fail, date)

\* FlagManager.load
load(c, d, defs, cls, features, scopes, rvs, fail, date) ==
  loadScopes(Outcome(c, d, "ok", JsUndefined, <<>>, <<>>, <<>>),
             defs, cls, features, scopes, rvs, fail, date)

(***************************************************************************)
(* Configuration and driver management.  Driver names and kinds are plain  *)
(* strings.  A store instance is known by its class, by a number that      *)
(* tells it from every other instance, and by what constructed it.         *)
(***************************************************************************)
\* FlagManager._config before construction and after reset(): undefined
NotConfigured == [configured |-> FALSE, default |-> "", drivers |-> EmptyMap]

\* a DriverConfig: { driver: kind }, or one without a driver field
DriverConfig(kind) == [hasDriver |-> TRUE, driver |-> kind]
DriverConfigWithoutKind == [hasDriver |-> FALSE, driver |-> ""]

\* what the Configuration handed to the constructor holds under 'flag'
FlagSettings(hasDefault, default, hasDrivers, drivers) ==
  [hasDefault |-> hasDefault, default |-> default,
   hasDrivers |-> hasDrivers, drivers |-> drivers]

\* the constructor: config.get('flag.default', 'database'),
\* config.get('flag.drivers', {})
construct(settings) ==
  [configured |-> TRUE,
   default |-> IF settings.hasDefault THEN settings.default ELSE "database",
   drivers |-> IF settings.hasDrivers THEN settings.drivers ELSE EmptyMap]

NotConfiguredMessage == "FlagManager not configured"
DriverNotConfiguredMessage == "Flag driver is not configured"
UnknownDriverMessage == "Unknown flag driver"

\* static get config
FlagManager_config(cfg) ==
  IF ~cfg.configured
  THEN [threw |-> TRUE, error |-> "ConfigurationError",
        message |-> NotConfiguredMessage]
  ELSE [threw |-> FALSE, error |-> "none", message |-> ""]

\* a factory handed to extend(): told apart by a name, it returns a store of
\* some class
Factory(name, creates) == [name |-> name, creates |-> creates]

StoreInstance(class, id, madeBy) == [class |-> class, id |-> id, madeBy |-> madeBy]

NoStore == StoreInstance("none", 0, "none")

\* a createStore that tries the built-in kinds before the registered factories
createStoreBuiltInFirst(name, driverConfig, exts, id) ==
  LET driverName == IF driverConfig.hasDriver THEN driverConfig.driver ELSE name
  IN IF driverName = "database"
     THEN [threw |-> FALSE, store |-> StoreInstance("DatabaseDriver", id, "createStore")]
     ELSE IF driverName = "array"
     THEN [threw |-> FALSE, store |-> StoreInstance("ArrayDriver", id, "createStore")]
     ELSE IF MapHas(exts, driverName)
     THEN [threw |-> FALSE,
           store |-> StoreInstance(exts[driverName].creates, id, exts[driverName].name)]
     ELSE [threw |-> TRUE, store |-> NoStore]

\* FlagManager.createStore; id is the number of the instance it constructs
createStore(name, driverConfig, exts, id) ==
  LET driverName == IF driverConfig.hasDriver THEN driverConfig.driver ELSE name
  IN IF MapHas(exts, driverName)
     THEN [threw |-> FALSE,
           store |-> StoreInstance(exts[driverName].creates, id, exts[driverName].name)]
     ELSE IF driverName = "database"
     THEN [threw |-> FALSE, store |-> StoreInstance("DatabaseDriver", id, "createStore")]
     ELSE IF driverName = "array"
     THEN [threw |-> FALSE, store |-> StoreInstance("ArrayDriver", id, "createStore")]
     ELSE [threw |-> TRUE, store |-> NoStore]

\* the name argument of store(name?)
NoName == [given |-> FALSE, name |-> ""]
Named(name) == [given |-> TRUE, name |-> name]

\* how a call of store() ends
StoreThrows(sts, count, message) ==
  [threw |-> TRUE, error |-> "ConfigurationError", message |-> message,
   store |-> NoStore, stores |-> sts, made |-> count]

StoreReturns(store, sts, count) ==
  [threw |-> FALSE, error |-> "none", message |-> "",
   store |-> store, stores |-> sts, made |-> count]

\* a store that creates an instance at every call
storeUncached(cfg, sts, exts, name, count) ==
  LET key == IF name.given THEN name.name ELSE cfg.default
      created == createStore(key, cfg.drivers[key], exts, count + 1)
  IN IF ~cfg.configured
     THEN StoreThrows(sts, count, NotConfiguredMessage)
     ELSE IF ~MapHas(cfg.drivers, key)
     THEN StoreThrows(sts, count, DriverNotConfiguredMessage)
     ELSE IF created.threw
     THEN StoreThrows(sts, count, UnknownDriverMessage)
     ELSE StoreReturns(created.store, MapSet(sts, key, created.store), count + 1)

\* FlagManager.store; count is the number of instances created before the call
store(cfg, sts, exts, name, count) ==
  LET key == IF name.given THEN name.name ELSE cfg.default
      created == createStore(key, cfg.drivers[key], exts, count + 1)
  IN IF ~name.given /\ ~cfg.configured
     THEN StoreThrows(sts, count, NotConfiguredMessage)
     ELSE IF MapHas(sts, key)
     THEN StoreReturns(sts[key], sts, count)
     ELSE IF ~cfg.configured
     THEN StoreThrows(sts, count, NotConfiguredMessage)
     ELSE IF ~MapHas(cfg.drivers, key)
     THEN StoreThrows(sts, count, DriverNotConfiguredMessage)
     ELSE IF created.threw
     THEN StoreThrows(sts, count, UnknownDriverMessage)
     ELSE StoreReturns(created.store, MapSet(sts, key, created.store), count + 1)

\* FlagManager.extend
extend(exts, name, factory) == MapSet(exts, name, factory)

\* a reset that leaves the store instances where they are
resetKeepingStores(sts, exts, defs, cls, c, cfg) ==
  [stores |-> sts, extensions |-> EmptyMap, definitions |-> EmptyMap,
   classFeatures |-> EmptyMap, cache |-> EmptyMap, config |-> NotConfigured]

\* FlagManager.reset
reset(sts, exts, defs, cls, c, cfg) ==
  [stores |-> EmptyMap, extensions |-> EmptyMap, definitions |-> EmptyMap,
   classFeatures |-> EmptyMap, cache |-> EmptyMap, config |-> NotConfigured]

\* The store a manager operation works on is the one FlagManager.store()
\* returns.  An operation that makes store calls calls store() before the
\* first of them, and before it has changed anything: when that call throws,
\* the operation ends with its error.
storeAccess(o, cfg, sts, exts, count) ==
  IF o.storeCalls = <<>>
  THEN StoreReturns(NoStore, sts, count)
  ELSE store(cfg, sts, exts, NoName, count)

\* how operation o ends when it is made through the manager
Through(o, c, d, s) ==
  IF s.threw
  THEN [cache |-> c, data |-> d, outcome |-> s.error, ret |-> JsUndefined,
        invoked |-> <<>>, storeCalls |-> <<>>, events |-> <<>>]
  ELSE o

\* the keys that the resolver calls of an operation made it set, in order
RECURSIVE KeysOf(_)
KeysOf(invoked) ==
  IF invoked = <<>> THEN <<>>
  ELSE <<ArrayDriver_key(Head(invoked).feature, Head(invoked).scope)>>
         \o KeysOf(Tail(invoked))

\* the data of the ArrayDriver that _stores holds under name `key`; none is
\* held: the next store() constructs one, with an empty Map
HeldData(sts, key, d) == IF MapHas(sts, key) THEN d ELSE EmptyMap

(***************************************************************************)
(* The inputs of the model.                                                *)
(***************************************************************************)
\* the lists over S of at most n elements
SeqsUpTo(S, n) == UNION {[1..k -> S] : k \in 0..n}

FeatA == <<"f", "e", "a", "t">>
FeatB == <<"f", "e", "a", "t", "2">>

User1 == ScopeWithMethod(<<"U", "s", "e", "r">>, NumberId(1))

\* class Feat { resolve(scope) {...} }, registered under toKebab('Feat')
ClassFeat == FeatureClass(FALSE, <<>>, <<"F", "e", "a", "t">>, AnyResolver)

\* One feature at the global scope and at User:1, every kind of value and
\* of definition.
OnePair ==
  [features |-> {FeatA},
   scopes |-> {UndefinedScope, User1},
   batches |-> SeqsUpTo({FeatA}, MaxBatch),
   loadScopes |-> SeqsUpTo({User1}, MaxScopes),
   defineArgs |-> {BooleanLiteral(JsTrue), AnyResolver},
   classes |-> {ClassFeat},
   activateArgs |-> {JsUndefined, JsNull, JsVariant}]

\* class Off { static key = 'feat2'; resolve() { return false } }
ClassOff == FeatureClass(TRUE, FeatB, <<"O", "f", "f">>, ConstantResolver(JsFalse))

\* Two features at two scopes, boolean values.
TwoByTwo ==
  [features |-> {FeatA, FeatB},
   scopes |-> {UndefinedScope, User1},
   batches |-> {<<FeatA, FeatB>>},
   loadScopes |-> {<<User1>>},
   defineArgs |-> {BooleanLiteral(JsTrue)},
   classes |-> {ClassOff},
   activateArgs |-> {JsUndefined}]

FeatC == <<"o", "t", "h", "e", "r">>

\* Three features at one scope, for the batch read.
ThreeNames ==
  [features |-> {FeatA, FeatB, FeatC},
   scopes |-> {User1},
   batches |-> {<<FeatA, FeatB, FeatC>>},
   loadScopes |-> {<<User1>>},
   defineArgs |-> {BooleanLiteral(JsTrue)},
   classes |-> {ClassOff},
   activateArgs |-> {JsUndefined}]

Rollout == <<"r", "o", "l", "l", "o", "u", "t">>

User40 == ScopeWithMethod(<<"U", "s", "e", "r">>, NumberId(40))
User41 == ScopeWithMethod(<<"U", "s", "e", "r">>, NumberId(41))

\* The percentage rollout: one feature, decided by the id of the user.
TenPercent ==
  [features |-> {Rollout},
   scopes |-> {User40, User41},
   batches |-> {<<Rollout>>},
   loadScopes |-> {<<User40>>, <<User41>>},
   defineArgs |-> {RolloutResolver},
   classes |-> {ClassOff},
   activateArgs |-> {JsUndefined}]

\* mockScope('Team', 7) of the tests
Team7 == ScopeWithMethod(<<"T", "e", "a", "m">>, NumberId(7))

\* class Organization { id = 99 } of the tests
Organization99 ==
  ScopeOfClass(<<"O", "r", "g", "a", "n", "i", "z", "a", "t", "i", "o", "n">>,
               NumberId(99))

\* a user whose id is the string '1'
UserOne == ScopeWithMethod(<<"U", "s", "e", "r">>, StringId(<<"1">>))

\* scopes whose type or id holds a colon
TeamOfA == ScopeWithMethod(<<"T", "e", "a", "m">>, StringId(<<"a", ":", "1">>))
TeamAOf1 == ScopeWithMethod(<<"T", "e", "a", "m", ":", "a">>, NumberId(1))

\* a scope whose featureScope() returns '__global__'
GlobalNamed == ScopeWithMethod(GLOBAL_SCOPE, NumberId(1))

\* scopes of every kind, to be serialized
ScopeSamples ==
  {NullScope, UndefinedScope, User1, UserOne, Team7, Organization99,
   TeamOfA, TeamAOf1, GlobalNamed}

\* One feature at no scope, at a scope with featureScope() and at an
\* instance of a class.
ScopeKinds ==
  [features |-> {FeatA},
   scopes |-> {NullScope, UndefinedScope, Team7, Organization99},
   batches |-> {<<FeatA>>},
   loadScopes |-> {<<Team7>>, <<Organization99>>},
   defineArgs |-> {BooleanLiteral(JsTrue)},
   classes |-> {ClassOff},
   activateArgs |-> {JsVariant}]

\* One feature at one scope, decided by a constant.
OneConstant ==
  [features |-> {FeatA},
   scopes |-> {User1},
   batches |-> {<<FeatA>>},
   loadScopes |-> {<<User1>>},
   defineArgs |-> {BooleanLiteral(JsTrue)},
   classes |-> {ClassOff},
   activateArgs |-> {JsUndefined}]

\* mockConfig() of the tests: { default: 'array', drivers: { array: { driver: 'array' } } }
ArraySettings ==
  FlagSettings(TRUE, "array", TRUE, MapSet(EmptyMap, "array", DriverConfig("array")))

\* the configuration of the tests of extend():
\* { default: 'custom', drivers: { custom: { driver: 'custom' } } }
CustomSettings ==
  FlagSettings(TRUE, "custom", TRUE, MapSet(EmptyMap, "custom", DriverConfig("custom")))

\* { default: 'array', drivers: { array: {...}, database: {...} } }
BothSettings ==
  FlagSettings(TRUE, "array", TRUE,
               MapSet(MapSet(EmptyMap, "array", DriverConfig("array")),
                      "database", DriverConfig("database")))

\* { default: 'array', drivers: { array: {} } }: the kind is the name
KindlessSettings ==
  FlagSettings(TRUE, "array", TRUE, MapSet(EmptyMap, "array", DriverConfigWithoutKind))

\* a configuration with no 'flag' entry
NoSettings == FlagSettings(FALSE, "", FALSE, EmptyMap)

\* () => new ArrayDriver(), registered by the tests
ArrayFactory == Factory("() => new ArrayDriver()", "ArrayDriver")

\* The configurations, driver names and factories of driver management.
Drivers ==
  [settings |-> {ArraySettings, CustomSettings, BothSettings, KindlessSettings,
                 NoSettings},
   names |-> {NoName, Named("array"), Named("custom"), Named("database")},
   kinds |-> {"array", "custom"},
   factories |-> {ArrayFactory}]

\* results for a run of resolver calls: one per call, each a result its
\* resolver can have
DefaultRvs == [i \in 1..(MaxBatch * (MaxScopes + 1)) |-> JsUndefined]

Choices(defs, cls, invoked) ==
  {rvs \in [1..Len(invoked) -> JsValues] :
     \A i \in 1..Len(invoked) :
        rvs[i] \in Returns(resolveFeature(defs, cls, invoked[i].feature).resolver,
                           invoked[i].scope)}

(***************************************************************************)
(* The state machine: one action per call; calls do not overlap.           *)
(***************************************************************************)
\* the static fields as the class initialises them
Loaded ==
  /\ definitions = EmptyMap
  /\ classFeatures = EmptyMap
  /\ cache = EmptyMap
  /\ data = EmptyMap
  /\ now = 0
  /\ written = EmptyMap
  /\ config = NotConfigured
  /\ stores = EmptyMap
  /\ extensions = EmptyMap
  /\ made = 0
  /\ order = <<>>
  /\ callsMade = <<>>

\* the manager constructed on the configuration of the tests (bootFlag())
Init ==
  /\ definitions = EmptyMap
  /\ classFeatures = EmptyMap
  /\ cache = EmptyMap
  /\ data = EmptyMap
  /\ now = 0
  /\ written = EmptyMap
  /\ config = construct(ArraySettings)
  /\ stores = EmptyMap
  /\ extensions = EmptyMap
  /\ made = 0
  /\ order = <<>>
  /\ callsMade = <<>>

\* the explicit writes that are left when those of the pairs in `gone` go
Unwrite(w, gone) == [p \in DOMAIN w \ gone |-> w[p]]

\* the value an explicit activation is asked to write: the one given, true
\* when none is given
Given(val) == IF val = JsUndefined THEN JsTrue ELSE val

\* what a call can meet in the current state: `fail`, the store call that
\* throws (0: none), and the results of the resolver calls it makes
ReadFails(feature, scope) ==
  0..Len(value(cache, data, definitions, classFeatures, feature, scope,
               JsUndefined, 0, now).storeCalls)

ReadResults(feature, scope, fail) ==
  LET probe == value(cache, data, definitions, classFeatures, feature, scope,
                     JsUndefined, fail, now)
  IN {IF rvs = <<>> THEN JsUndefined ELSE rvs[1] :
        rvs \in Choices(definitions, classFeatures, probe.invoked)}

ValuesFails(features, scope) ==
  0..Len(values(cache, data, definitions, classFeatures, features, scope,
                DefaultRvs, 0, now).storeCalls)

ValuesResults(features, scope, fail) ==
  Choices(definitions, classFeatures,
          values(cache, data, definitions, classFeatures, features, scope,
                 DefaultRvs, fail, now).invoked)

LoadFails(features, scopes) ==
  0..Len(load(cache, data, definitions, classFeatures, features, scopes,
              DefaultRvs, 0, now).storeCalls)

LoadResults(features, scopes, fail) ==
  Choices(definitions, classFeatures,
          load(cache, data, definitions, classFeatures, features, scopes,
               DefaultRvs, fail, now).invoked)

\* the store is let to grow to MaxStored records
Fits(o) == Cardinality(DOMAIN o.data) <= MaxStored

\* the fields of driver management
drivers == <<config, stores, extensions, made>>

Define(U) ==
  \E name \in U.features, resolver \in U.defineArgs :
    /\ definitions' = define(definitions, name, resolver)
    /\ UNCHANGED <<classFeatures, cache, data, now, written, drivers, order, callsMade>>

DefineClass(U) ==
  \E feature \in U.classes :
    /\ classFeatures' = defineClass(classFeatures, feature)
    /\ UNCHANGED <<definitions, cache, data, now, written, drivers, order, callsMade>>

\* An operation made through the manager reaches the store by store(): the
\* instance is created when none is held, and the operation works on an
\* ArrayDriver.  sets lists the keys the operation sets, in order.
Reached(s) ==
  /\ s.made <= MaxInstances
  /\ s.threw \/ s.store.class \in {"none", "ArrayDriver"}
  /\ stores' = s.stores
  /\ made' = s.made
  /\ UNCHANGED <<config, extensions>>

\* a read leaves the manager and the store as its outcome o says
Read(o) ==
  LET s == storeAccess(o, config, stores, extensions, made)
      r == Through(o, cache, data, s)
  IN /\ Fits(r)
     /\ Reached(s)
     /\ cache' = r.cache
     /\ data' = r.data
     /\ order' = Iteration(order, r.data, KeysOf(r.invoked))
     /\ UNCHANGED <<definitions, classFeatures, now, written, callsMade>>

Value(U) ==
  \E feature \in U.features, scope \in U.scopes :
    \E fail \in ReadFails(feature, scope) :
      \E rv \in ReadResults(feature, scope, fail) :
        Read(value(cache, data, definitions, classFeatures, feature, scope,
                   rv, fail, now))

Active(U) ==
  \E feature \in U.features, scope \in U.scopes :
    \E fail \in ReadFails(feature, scope) :
      \E rv \in ReadResults(feature, scope, fail) :
        Read(active(cache, data, definitions, classFeatures, feature, scope,
                    rv, fail, now))

Inactive(U) ==
  \E feature \in U.features, scope \in U.scopes :
    \E fail \in ReadFails(feature, scope) :
      \E rv \in ReadResults(feature, scope, fail) :
        Read(inactive(cache, data, definitions, classFeatures, feature, scope,
                      rv, fail, now))

When(U) ==
  \E feature \in U.features, scope \in U.scopes :
    \E fail \in ReadFails(feature, scope) :
      \E rv \in ReadResults(feature, scope, fail) :
        Read(when(cache, data, definitions, classFeatures, feature, scope,
                  rv, fail, now))

Values(U) ==
  \E features \in U.batches, scope \in U.scopes :
    \E fail \in ValuesFails(features, scope) :
      \E rvs \in ValuesResults(features, scope, fail) :
        Read(values(cache, data, definitions, classFeatures, features, scope,
                    rvs, fail, now))

Load(U) ==
  \E features \in U.batches, scopes \in U.loadScopes :
    \E fail \in LoadFails(features, scopes) :
      \E rvs \in LoadResults(features, scopes, fail) :
        Read(load(cache, data, definitions, classFeatures, features, scopes,
                  rvs, fail, now))

\* an explicit write of `given` to pair (feature, scopeKey)
Write(feature, scopeKey, given, o) ==
  LET s == storeAccess(o, config, stores, extensions, made)
      r == Through(o, cache, data, s)
  IN /\ Fits(r)
     /\ Reached(s)
     /\ cache' = r.cache
     /\ data' = r.data
     /\ order' = Iteration(order, r.data, <<ArrayDriver_key(feature, scopeKey)>>)
     /\ written' = IF r.outcome = "ok"
                   THEN MapSet(written, <<feature, scopeKey>>, given)
                   ELSE written
     /\ UNCHANGED <<definitions, classFeatures, now, callsMade>>

Activate(U) ==
  \E feature \in U.features, val \in U.activateArgs, scope \in U.scopes,
     fail \in 0..1 :
    Write(feature, serializeScope(scope), Given(val),
          activate(cache, data, feature, val, scope, fail, now))

Deactivate(U) ==
  \E feature \in U.features, scope \in U.scopes, fail \in 0..1 :
    Write(feature, serializeScope(scope), JsFalse,
          deactivate(cache, data, feature, scope, fail, now))

ActivateForEveryone(U) ==
  \E feature \in U.features, val \in U.activateArgs, fail \in 0..1 :
    Write(feature, GLOBAL_SCOPE, Given(val),
          activateForEveryone(cache, data, feature, val, fail, now))

DeactivateForEveryone(U) ==
  \E feature \in U.features, fail \in 0..1 :
    Write(feature, GLOBAL_SCOPE, JsFalse,
          deactivateForEveryone(cache, data, feature, fail, now))

\* a removal of the pairs in `gone`
Remove(o, gone) ==
  LET s == storeAccess(o, config, stores, extensions, made)
      r == Through(o, cache, data, s)
  IN /\ Reached(s)
     /\ cache' = r.cache
     /\ data' = r.data
     /\ order' = Iteration(order, r.data, <<>>)
     /\ written' = IF r.outcome = "ok" THEN Unwrite(written, gone) ELSE written
     /\ UNCHANGED <<definitions, classFeatures, now, callsMade>>

Forget(U) ==
  \E feature \in U.features, scope \in U.scopes, fail \in 0..1 :
    Remove(forget(cache, data, feature, scope, fail),
           {<<feature, serializeScope(scope)>>})

Purge(U) ==
  \E feature \in U.features, fail \in 0..1 :
    Remove(purge(cache, data, feature, fail),
           {q \in DOMAIN written : q[1] = feature})

PurgeAll ==
  \E fail \in 0..1 :
    Remove(purgeAll(cache, data, fail), DOMAIN written)

Stored ==
  \E fail \in 0..1 : Read(FlagManager_stored(cache, data, order, fail))

FlushCache ==
  /\ cache' = flushCache(cache)
  /\ UNCHANGED <<definitions, classFeatures, data, now, written, drivers, order, callsMade>>

\* new FlagManager(db, config): the container builds the singleton once
\* (FlagProvider.register), and again after a reset()
Construct(D) ==
  \E settings \in D.settings :
    /\ ~config.configured
    /\ config' = construct(settings)
    /\ UNCHANGED <<definitions, classFeatures, cache, data, now, written,
                   stores, extensions, made, order, callsMade>>

\* a call of FlagManager.store(name) or FlagManager.store()
StoreCall(D) ==
  \E name \in D.names :
    LET s == store(config, stores, extensions, name, made)
    IN /\ s.made <= MaxInstances
       /\ stores' = s.stores
       /\ made' = s.made
       /\ UNCHANGED <<definitions, classFeatures, cache, data, now, written,
                      config, extensions, order, callsMade>>

Extend(D) ==
  \E name \in D.kinds, factory \in D.factories :
    /\ extensions' = extend(extensions, name, factory)
    /\ UNCHANGED <<definitions, classFeatures, cache, data, now, written,
                   config, stores, made, order, callsMade>>

Reset ==
  LET r == reset(stores, extensions, definitions, classFeatures, cache, config)
  IN /\ stores' = r.stores
     /\ extensions' = r.extensions
     /\ definitions' = r.definitions
     /\ classFeatures' = r.classFeatures
     /\ cache' = r.cache
     /\ config' = r.config
     /\ data' = HeldData(r.stores, config.default, data)
     /\ order' = IF MapHas(r.stores, config.default) THEN order ELSE <<>>
     /\ written' = EmptyMap
     /\ UNCHANGED <<now, made, callsMade>>

\* time passes
Tick ==
  /\ now < MaxTime
  /\ now' = now + 1
  /\ UNCHANGED <<definitions, classFeatures, cache, data, written, drivers, order, callsMade>>

\* the calls on the inputs of U
NextOn(U) ==
  \/ Define(U)
  \/ DefineClass(U)
  \/ Value(U)
  \/ Active(U)
  \/ Inactive(U)
  \/ When(U)
  \/ Values(U)
  \/ Load(U)
  \/ Activate(U)
  \/ Deactivate(U)
  \/ ActivateForEveryone(U)
  \/ DeactivateForEveryone(U)
  \/ Forget(U)
  \/ Purge(U)
  \/ PurgeAll
  \/ Stored
  \/ FlushCache

Next == NextOn(OnePair)

Spec == Init /\ [][Next]_vars

NextPairs == NextOn(TwoByTwo)

SpecPairs == Init /\ [][NextPairs]_vars

NextBatch == NextOn(ThreeNames)

SpecBatch == Init /\ [][NextBatch]_vars

NextRollout == NextOn(TenPercent)

SpecRollout == Init /\ [][NextRollout]_vars

NextScopes == NextOn(ScopeKinds)

SpecScopes == Init /\ [][NextScopes]_vars

\* the manager from class load on: construction, driver management, reset
NextLifecycle ==
  \/ NextOn(OneConstant)
  \/ Construct(Drivers)
  \/ StoreCall(Drivers)
  \/ Extend(Drivers)
  \/ Reset

SpecLifecycle == Loaded /\ [][NextLifecycle]_vars

\* the manager while time passes
NextClock ==
  \/ NextOn(OneConstant)
  \/ Tick

SpecClock == Init /\ [][NextClock]_vars


(***************************************************************************)
(* The properties.  A property of a call is stated on every reachable      *)
(* state, for every way the call can go from that state: every argument    *)
(* of the universe, every result of the resolver, every store call that    *)
(* can throw.                                                              *)
(***************************************************************************)
\* the entry of map m under k, if any
Entry(m, k) == IF MapHas(m, k) THEN <<m[k]>> ELSE <<>>

\* what the resolver of `feature` can return for `scope` (nothing is asked
\* of a feature without a definition)
ResolverResults(feature, scope) ==
  LET r == resolveFeature(definitions, classFeatures, feature)
  IN IF r.threw THEN {JsUndefined} ELSE Returns(r.resolver, serializeScope(scope))

\* the same result for every resolver call of a batch
Repeat(rv) == [i \in DOMAIN DefaultRvs |-> rv]

\* value ?? true
Coalesce(val) == IF val \in {JsUndefined, JsNull} THEN JsTrue ELSE val

\* C1 (as stated): once a value for a pair has been persisted (the store
\* holds a record for it), no later value(), active(), values() or load()
\* call for that pair invokes the resolver, also after flushCache().
C1_ResolveOnce ==
  \A feature \in OnePair.features, scope \in OnePair.scopes :
    MapHas(data, ArrayDriver_key(feature, serializeScope(scope))) =>
      /\ \A fail \in ReadFails(feature, scope) :
           \A rv \in ReadResults(feature, scope, fail) :
             /\ value(cache, data, definitions, classFeatures, feature, scope,
                      rv, fail, now).invoked = <<>>
             /\ active(cache, data, definitions, classFeatures, feature, scope,
                       rv, fail, now).invoked = <<>>
      /\ \A fail \in ValuesFails(<<feature>>, scope) :
           \A rvs \in ValuesResults(<<feature>>, scope, fail) :
             values(cache, data, definitions, classFeatures, <<feature>>, scope,
                    rvs, fail, now).invoked = <<>>
      /\ \A fail \in LoadFails(<<feature>>, <<scope>>) :
           \A rvs \in LoadResults(<<feature>>, <<scope>>, fail) :
             load(cache, data, definitions, classFeatures, <<feature>>, <<scope>>,
                  rvs, fail, now).invoked = <<>>

\* C2 (as stated): after a value(f, s) that resolved v, flushCache() and
\* then value(f, s) returns v and does not invoke the resolver, for every v
\* the resolver can return.
C2_CacheTransparency ==
  \A feature \in OnePair.features, scope \in OnePair.scopes :
    \A v \in ResolverResults(feature, scope), again \in ResolverResults(feature, scope) :
      LET first == value(cache, data, definitions, classFeatures, feature, scope,
                         v, 0, now)
          second == value(flushCache(first.cache), first.data, definitions,
                          classFeatures, feature, scope, again, 0, now)
      IN (first.outcome = "ok" /\ first.invoked # <<>>) =>
           /\ second.outcome = "ok"
           /\ second.ret = v
           /\ second.invoked = <<>>

\* C3: when the cache holds an entry for (feature, scope), value() returns
\* it, makes no store call and no resolver call, and leaves cache and store
\* as they are; values() makes no store call when every requested feature
\* is a cache hit.
C3_CacheHitShortCircuits ==
  /\ \A feature \in OnePair.features, scope \in OnePair.scopes :
       LET ck == cacheKey(feature, serializeScope(scope))
       IN MapHas(cache, ck) =>
            \A rv \in JsValues, fail \in 0..2 :
              LET o == value(cache, data, definitions, classFeatures, feature,
                             scope, rv, fail, now)
              IN /\ o.outcome = "ok"
                 /\ o.ret = cache[ck]
                 /\ o.storeCalls = <<>>
                 /\ o.invoked = <<>>
                 /\ o.cache = cache
                 /\ o.data = data
  /\ \A features \in OnePair.batches, scope \in OnePair.scopes :
       (\A i \in DOMAIN features :
          MapHas(cache, cacheKey(features[i], serializeScope(scope)))) =>
         \A rv \in JsValues, fail \in 0..2 :
           LET o == values(cache, data, definitions, classFeatures, features,
                           scope, Repeat(rv), fail, now)
           IN /\ o.outcome = "ok"
              /\ o.storeCalls = <<>>
              /\ o.invoked = <<>>
              /\ o.cache = cache
              /\ o.data = data

\* a falsy value is cached while the store call of a miss would throw, and
\* value() still returns it
C3_Witness ==
  \E feature \in OnePair.features, scope \in OnePair.scopes :
    LET ck == cacheKey(feature, serializeScope(scope))
    IN /\ MapHas(cache, ck)
       /\ ~Truthy(cache[ck])
       /\ value(cache, data, definitions, classFeatures, feature, scope,
                JsTrue, 1, now).ret = cache[ck]
       /\ values(cache, data, definitions, classFeatures, <<feature, feature>>,
                 scope, Repeat(JsTrue), 1, now).outcome = "ok"

\* C4 (as stated): when a feature resolves, or is deactivated, to a falsy
\* value, the value is stored and cached, and later value(), active() and
\* values() calls for the pair return it, from the cache or (the cache
\* flushed) from the store, without invoking the resolver.
C4_FalsyValuesAreHits ==
  \A feature \in OnePair.features, scope \in OnePair.scopes :
    LET scopeKey == serializeScope(scope)
        Later(o, v) ==
          /\ Entry(o.cache, cacheKey(feature, scopeKey)) = <<v>>
          /\ MapHas(o.data, ArrayDriver_key(feature, scopeKey))
          /\ o.data[ArrayDriver_key(feature, scopeKey)].value = v
          /\ \A c \in {o.cache, flushCache(o.cache)},
                again \in ResolverResults(feature, scope) :
               LET one == value(c, o.data, definitions, classFeatures, feature,
                                scope, again, 0, now)
                   flag == active(c, o.data, definitions, classFeatures, feature,
                                  scope, again, 0, now)
                   many == values(c, o.data, definitions, classFeatures,
                                  <<feature>>, scope, Repeat(again), 0, now)
               IN /\ one.invoked = <<>> /\ one.ret = v
                  /\ flag.invoked = <<>> /\ flag.ret = JsFalse
                  /\ many.invoked = <<>> /\ many.ret[feature] = v
    IN /\ \A v \in ResolverResults(feature, scope) :
            LET first == value(cache, data, definitions, classFeatures, feature,
                               scope, v, 0, now)
            IN (~Truthy(v) /\ first.outcome = "ok" /\ first.invoked # <<>>) =>
                 Later(first, v)
       /\ Later(deactivate(cache, data, feature, scope, 0, now), JsFalse)

\* C5: value(), active(), inactive() and when() for a feature without a
\* function-based or class-based definition and without a cached or stored
\* value for the pair fail, with FeatureNotDefinedError once the store has
\* answered the read; the failed call leaves store and cache as they are,
\* emits nothing, and a repeated call fails the same way.
C5_NotDefinedFails ==
  \A feature \in OnePair.features, scope \in OnePair.scopes :
    LET scopeKey == serializeScope(scope)
        Fails(o, fail) ==
          /\ o.outcome = IF fail = 1 THEN "StoreError" ELSE "FeatureNotDefinedError"
          /\ o.cache = cache
          /\ o.data = data
          /\ o.events = <<>>
          /\ o.invoked = <<>>
    IN (/\ ~MapHas(definitions, feature)
        /\ ~MapHas(classFeatures, feature)
        /\ ~MapHas(cache, cacheKey(feature, scopeKey))
        /\ ~MapHas(data, ArrayDriver_key(feature, scopeKey))) =>
         \A rv \in JsValues, fail \in 0..2 :
           LET v == value(cache, data, definitions, classFeatures, feature,
                          scope, rv, fail, now)
               a == active(cache, data, definitions, classFeatures, feature,
                           scope, rv, fail, now)
               i == inactive(cache, data, definitions, classFeatures, feature,
                             scope, rv, fail, now)
               w == when(cache, data, definitions, classFeatures, feature,
                         scope, rv, fail, now)
           IN /\ Fails(v, fail) /\ Fails(a, fail) /\ Fails(i, fail) /\ Fails(w, fail)
              /\ Fails(value(v.cache, v.data, definitions, classFeatures,
                             feature, scope, rv, fail, now), fail)

\* the store holds a record of another pair, and value() of an undefined
\* feature throws FeatureNotDefinedError
C5_Witness ==
  \E feature \in OnePair.features, scope \in OnePair.scopes :
    /\ ~MapHas(definitions, feature)
    /\ ~MapHas(classFeatures, feature)
    /\ ~MapHas(cache, cacheKey(feature, serializeScope(scope)))
    /\ ~MapHas(data, ArrayDriver_key(feature, serializeScope(scope)))
    /\ data # EmptyMap
    /\ value(cache, data, definitions, classFeatures, feature, scope,
             JsUndefined, 0, now).outcome = "FeatureNotDefinedError"

\* C6: when the store write of value(f, s) throws after the resolver ran,
\* the call fails with the store's error, the cache gets no entry for the
\* pair and nothing is emitted, so that the next value(f, s) invokes the
\* resolver again; and in every step of the manager, a cache entry that is
\* added or changed is the value of the pair's store record.
C6_CacheAfterStoreWrite ==
  /\ [](\A feature \in OnePair.features, scope \in OnePair.scopes :
          \A rv \in ResolverResults(feature, scope),
             again \in ResolverResults(feature, scope) :
            LET ck == cacheKey(feature, serializeScope(scope))
                o == value(cache, data, definitions, classFeatures, feature,
                           scope, rv, 2, now)
                next == value(o.cache, o.data, definitions, classFeatures,
                              feature, scope, again, 0, now)
            IN o.invoked # <<>> =>
                 /\ o.outcome = "StoreError"
                 /\ ~MapHas(o.cache, ck)
                 /\ o.data = data
                 /\ o.events = <<>>
                 /\ Len(next.invoked) = 1)
  /\ [][\A feature \in OnePair.features, scope \in OnePair.scopes :
          LET ck == cacheKey(feature, serializeScope(scope))
              k == ArrayDriver_key(feature, serializeScope(scope))
          IN (Entry(cache', ck) # <<>> /\ Entry(cache', ck) # Entry(cache, ck)) =>
               /\ MapHas(data', k)
               /\ data'[k].value = cache'[ck]]_vars

\* the resolver of a defined feature has run and the store write throws
C6_Witness ==
  \E feature \in OnePair.features, scope \in OnePair.scopes :
    LET o == value(cache, data, definitions, classFeatures, feature, scope,
                   JsTrue, 2, now)
    IN /\ MapHas(definitions, feature)
       /\ data # EmptyMap
       /\ o.invoked # <<>>
       /\ o.outcome = "StoreError"

\* C7 (as stated): activate(feature, value, scope) writes `value ?? true` to
\* the store and to the cache: the given value, and true when the value is
\* undefined or null.
C7_ActivateWritesValueOrTrue ==
  \A feature \in OnePair.features, val \in OnePair.activateArgs,
     scope \in OnePair.scopes :
    LET scopeKey == serializeScope(scope)
        o == activate(cache, data, feature, val, scope, 0, now)
    IN /\ Entry(o.cache, cacheKey(feature, scopeKey)) = <<Coalesce(val)>>
       /\ MapHas(o.data, ArrayDriver_key(feature, scopeKey))
       /\ o.data[ArrayDriver_key(feature, scopeKey)].value = Coalesce(val)

\* C8: after activate(f, v, s) or deactivate(f, s) returned, value(f, s)
\* returns the written value until the next explicit write or removal of the
\* pair, whatever was resolved, stored or cached before; the write invokes
\* no resolver and succeeds whether or not f has a definition.
C8_ExplicitWriteWins ==
  /\ \A feature \in OnePair.features, scope \in OnePair.scopes :
       MapHas(written, <<feature, serializeScope(scope)>>) =>
         \A rv \in JsValues, fail \in 0..2 :
           LET o == value(cache, data, definitions, classFeatures, feature,
                          scope, rv, fail, now)
           IN /\ o.invoked = <<>>
              /\ fail = 0 => o.outcome = "ok"
              /\ o.outcome = "ok" => o.ret = written[<<feature, serializeScope(scope)>>]
  /\ \A feature \in OnePair.features, val \in OnePair.activateArgs,
        scope \in OnePair.scopes :
       LET on == activate(cache, data, feature, val, scope, 0, now)
           off == deactivate(cache, data, feature, scope, 0, now)
       IN /\ on.outcome = "ok" /\ on.invoked = <<>>
          /\ off.outcome = "ok" /\ off.invoked = <<>>
          /\ \A rv \in JsValues :
               /\ value(on.cache, on.data, definitions, classFeatures, feature,
                        scope, rv, 0, now).ret = Given(val)
               /\ value(off.cache, off.data, definitions, classFeatures, feature,
                        scope, rv, 0, now).ret = JsFalse

\* a pair that was resolved to one value was then written another, the
\* cache was flushed, and value() returns the written one
C8_Witness ==
  \E feature \in OnePair.features, scope \in OnePair.scopes :
    LET p == <<feature, serializeScope(scope)>>
    IN /\ MapHas(written, p)
       /\ written[p] = JsNull
       /\ MapHas(definitions, feature)
       /\ ~MapHas(cache, cacheKey(feature, serializeScope(scope)))
       /\ value(cache, data, definitions, classFeatures, feature, scope,
                JsTrue, 0, now).ret = JsNull

\* what value(feature, scope) is seen to do from cache c and store d, for
\* each result of the resolver and each store call that throws
Observed(c, d, feature, scope) ==
  [x \in ResolverResults(feature, scope) \X (0..2) |->
     LET o == value(c, d, definitions, classFeatures, feature, scope, x[1], x[2], now)
     IN <<o.outcome, o.ret>>]

\* o leaves every pair other than (feature, scopeKey) as it is
OnlyPair(U, o, feature, scopeKey) ==
  /\ \A k \in (DOMAIN cache \cup DOMAIN o.cache) \ {cacheKey(feature, scopeKey)} :
       Entry(o.cache, k) = Entry(cache, k)
  /\ \A k \in (DOMAIN data \cup DOMAIN o.data) \ {ArrayDriver_key(feature, scopeKey)} :
       Entry(o.data, k) = Entry(data, k)
  /\ \A g \in U.features, B \in U.scopes :
       <<g, serializeScope(B)>> # <<feature, scopeKey>> =>
         Observed(o.cache, o.data, g, B) = Observed(cache, data, g, B)

\* C9: activate(f, v, A) and deactivate(f, A) change the store record and
\* the cache entry of (f, A) only: what value(g, B) returns for every other
\* pair is the same before and after; activateForEveryone and
\* deactivateForEveryone change the global-scope pair of f only.
C9_ScopeIsolation ==
  \A feature \in TwoByTwo.features, val \in TwoByTwo.activateArgs, fail \in 0..1 :
    /\ \A scope \in TwoByTwo.scopes :
         /\ OnlyPair(TwoByTwo, activate(cache, data, feature, val, scope, fail, now),
                     feature, serializeScope(scope))
         /\ OnlyPair(TwoByTwo, deactivate(cache, data, feature, scope, fail, now),
                     feature, serializeScope(scope))
    /\ OnlyPair(TwoByTwo, activateForEveryone(cache, data, feature, val, fail, now),
                feature, GLOBAL_SCOPE)
    /\ OnlyPair(TwoByTwo, deactivateForEveryone(cache, data, feature, fail, now),
                feature, GLOBAL_SCOPE)

\* a feature is off at the global scope and unset for User:1; activating it
\* for User:1 writes that pair
C9_Witness ==
  \E feature \in TwoByTwo.features :
    LET o == activate(cache, data, feature, JsUndefined, User1, 0, now)
        global == ArrayDriver_key(feature, GLOBAL_SCOPE)
        user == ArrayDriver_key(feature, serializeScope(User1))
    IN /\ MapHas(data, global)
       /\ data[global].value = JsFalse
       /\ Entry(cache, cacheKey(feature, GLOBAL_SCOPE)) = <<JsFalse>>
       /\ ~MapHas(data, user)
       /\ o.data[user].value = JsTrue
       /\ o.data[global].value = JsFalse

\* C10: after value(f, s) resolved, forget(f, s) followed by value(f, s)
\* invokes the resolver exactly once more and returns its new result: each
\* forget that a read follows adds one invocation.
C10_ForgetRoundTrip ==
  \A feature \in OnePair.features, scope \in OnePair.scopes :
    \A v \in ResolverResults(feature, scope), new \in ResolverResults(feature, scope) :
      LET first == value(cache, data, definitions, classFeatures, feature, scope,
                         v, 0, now)
          gone == forget(first.cache, first.data, feature, scope, 0)
          second == value(gone.cache, gone.data, definitions, classFeatures,
                          feature, scope, new, 0, now)
          third == value(second.cache, second.data, definitions, classFeatures,
                         feature, scope, v, 0, now)
      IN (first.outcome = "ok" /\ first.invoked # <<>>) =>
           /\ gone.outcome = "ok"
           /\ second.outcome = "ok"
           /\ Len(second.invoked) = 1
           /\ second.invoked[1].feature = feature
           /\ second.invoked[1].scope = serializeScope(scope)
           /\ second.ret = new
           /\ (new # JsUndefined => third.invoked = <<>> /\ third.ret = new)

\* a pair resolves to true, is forgotten, and resolves to false
C10_Witness ==
  \E feature \in OnePair.features, scope \in OnePair.scopes :
    LET first == value(cache, data, definitions, classFeatures, feature, scope,
                       JsTrue, 0, now)
        gone == forget(first.cache, first.data, feature, scope, 0)
        second == value(gone.cache, gone.data, definitions, classFeatures,
                        feature, scope, JsFalse, 0, now)
    IN /\ JsFalse \in ResolverResults(feature, scope)
       /\ data # EmptyMap
       /\ first.invoked # <<>>
       /\ first.ret = JsTrue
       /\ second.ret = JsFalse
       /\ Len(second.invoked) = 1

\* C11: forget(f, s) deletes the store record and the cache entry of (f, s)
\* and nothing else: every other pair keeps its record and its entry, and
\* value() of it does the same before and after.
C11_ForgetOnePair ==
  \A feature \in TwoByTwo.features, scope \in TwoByTwo.scopes, fail \in 0..1 :
    LET o == forget(cache, data, feature, scope, fail)
        scopeKey == serializeScope(scope)
    IN /\ OnlyPair(TwoByTwo, o, feature, scopeKey)
       /\ fail = 0 =>
            /\ o.outcome = "ok"
            /\ ~MapHas(o.data, ArrayDriver_key(feature, scopeKey))
            /\ ~MapHas(o.cache, cacheKey(feature, scopeKey))

\* a feature is stored and cached at both scopes and another feature at one;
\* forget at User:1 removes that pair
C11_Witness ==
  \E feature \in TwoByTwo.features :
    LET o == forget(cache, data, feature, User1, 0)
        global == ArrayDriver_key(feature, GLOBAL_SCOPE)
        user == ArrayDriver_key(feature, serializeScope(User1))
    IN /\ MapHas(data, global) /\ MapHas(cache, global)
       /\ MapHas(data, user) /\ MapHas(cache, user)
       /\ MapHas(o.data, global) /\ MapHas(o.cache, global)
       /\ ~MapHas(o.data, user) /\ ~MapHas(o.cache, user)

\* C12: after purge(f), for any number of scopes written for f, stored()
\* does not list f, no store record and no cache entry of f is left at any
\* scope, and the next value(f, s) of a defined f invokes the resolver again.
C12_PurgeEveryScope ==
  \A feature \in OnePair.features :
    LET o == purge(cache, data, feature, 0)
    IN /\ o.outcome = "ok"
       /\ FlagManager_stored(o.cache, o.data,
                             Iteration(order, o.data, <<>>), 0).outcome = "ok"
       /\ feature \notin Range(FlagManager_stored(o.cache, o.data,
                                Iteration(order, o.data, <<>>), 0).ret)
       /\ \A scope \in OnePair.scopes :
            /\ ~MapHas(o.data, ArrayDriver_key(feature, serializeScope(scope)))
            /\ ~MapHas(o.cache, cacheKey(feature, serializeScope(scope)))
            /\ ~resolveFeature(definitions, classFeatures, feature).threw =>
                 \A rv \in ResolverResults(feature, scope) :
                   LET next == value(o.cache, o.data, definitions, classFeatures,
                                     feature, scope, rv, 0, now)
                   IN /\ Len(next.invoked) = 1
                      /\ next.invoked[1].feature = feature
                      /\ next.ret = rv

\* a defined feature is stored and cached at two scopes, stored() lists it,
\* and purge leaves an empty store
C12_Witness ==
  \E feature \in OnePair.features :
    /\ MapHas(definitions, feature)
    /\ \A scope \in OnePair.scopes :
         /\ MapHas(data, ArrayDriver_key(feature, serializeScope(scope)))
         /\ MapHas(cache, cacheKey(feature, serializeScope(scope)))
    /\ feature \in Range(FlagManager_stored(cache, data, order, 0).ret)
    /\ purge(cache, data, feature, 0).data = EmptyMap

\* C13: purge(f) leaves the store record and the cache entry of every other
\* feature g unchanged at every scope, also when the name f is a proper
\* prefix of the name g ('feat' and 'feat2').
C13_PurgeOneFeature ==
  \A feature \in TwoByTwo.features, fail \in 0..1 :
    LET o == purge(cache, data, feature, fail)
    IN \A g \in TwoByTwo.features \ {feature}, B \in TwoByTwo.scopes :
         /\ Entry(o.cache, cacheKey(g, serializeScope(B)))
              = Entry(cache, cacheKey(g, serializeScope(B)))
         /\ Entry(o.data, ArrayDriver_key(g, serializeScope(B)))
              = Entry(data, ArrayDriver_key(g, serializeScope(B)))
         /\ Observed(o.cache, o.data, g, B) = Observed(cache, data, g, B)

\* 'feat' and 'feat2' are both stored and cached at User:1; purge('feat')
\* removes the one and keeps the other
C13_Witness ==
  LET o == purge(cache, data, FeatA, 0)
      a == ArrayDriver_key(FeatA, serializeScope(User1))
      b == ArrayDriver_key(FeatB, serializeScope(User1))
  IN /\ StartsWith(FeatB, FeatA)
     /\ MapHas(data, a) /\ MapHas(cache, a)
     /\ MapHas(data, b) /\ MapHas(cache, b)
     /\ ~MapHas(o.data, a) /\ ~MapHas(o.cache, a)
     /\ MapHas(o.data, b) /\ MapHas(o.cache, b)

\* C14: after purgeAll() the store holds no record and the cache no entry,
\* stored() is empty, and the next value() of every defined feature invokes
\* its resolver again; the step that empties the store leaves the
\* definitions as they are.
C14_PurgeAllClears ==
  /\ [](LET o == purgeAll(cache, data, 0)
        IN /\ o.outcome = "ok"
           /\ o.data = EmptyMap
           /\ o.cache = EmptyMap
           /\ FlagManager_stored(o.cache, o.data,
                                 Iteration(order, o.data, <<>>), 0).ret = <<>>
           /\ \A feature \in OnePair.features, scope \in OnePair.scopes :
                ~resolveFeature(definitions, classFeatures, feature).threw =>
                  \A rv \in ResolverResults(feature, scope) :
                    LET next == value(o.cache, o.data, definitions, classFeatures,
                                      feature, scope, rv, 0, now)
                    IN Len(next.invoked) = 1 /\ next.ret = rv)
  /\ [][(data # EmptyMap /\ data' = EmptyMap) =>
          (definitions' = definitions /\ classFeatures' = classFeatures)]_vars

\* a defined feature is stored and cached at two scopes when purgeAll runs
C14_Witness ==
  \E feature \in OnePair.features :
    /\ ~resolveFeature(definitions, classFeatures, feature).threw
    /\ Cardinality(DOMAIN data) = 2
    /\ Cardinality(DOMAIN cache) = 2
    /\ purgeAll(cache, data, 0).data = EmptyMap

\* C15 (as stated): with 'rollout' defined as id % 10 === 0 and nothing
\* resolved yet, active('rollout', User:40) is true and
\* active('rollout', User:41) is false; after activateForEveryone('rollout')
\* both are true, and neither call invokes the resolver.
C15_RolloutForEveryone ==
  (MapHas(definitions, Rollout) /\ cache = EmptyMap /\ data = EmptyMap) =>
    LET r40 == RolloutResult(serializeScope(User40))
        r41 == RolloutResult(serializeScope(User41))
        a40 == active(cache, data, definitions, classFeatures, Rollout, User40,
                      r40, 0, now)
        a41 == active(a40.cache, a40.data, definitions, classFeatures, Rollout,
                      User41, r41, 0, now)
        all == activateForEveryone(a41.cache, a41.data, Rollout, JsUndefined, 0, now)
        b40 == active(all.cache, all.data, definitions, classFeatures, Rollout,
                      User40, r40, 0, now)
        b41 == active(b40.cache, b40.data, definitions, classFeatures, Rollout,
                      User41, r41, 0, now)
    IN /\ a40.ret = JsTrue
       /\ a41.ret = JsFalse
       /\ all.outcome = "ok"
       /\ b40.ret = JsTrue /\ b40.invoked = <<>>
       /\ b41.ret = JsTrue /\ b41.invoked = <<>>

\* a is cached, b is stored and not cached, c is neither and has a definition
BatchCase(a, b, c, scope) ==
  LET scopeKey == serializeScope(scope)
  IN /\ MapHas(cache, cacheKey(a, scopeKey))
     /\ ~MapHas(cache, cacheKey(b, scopeKey))
     /\ MapHas(data, ArrayDriver_key(b, scopeKey))
     /\ ~MapHas(cache, cacheKey(c, scopeKey))
     /\ ~MapHas(data, ArrayDriver_key(c, scopeKey))
     /\ ~resolveFeature(definitions, classFeatures, c).threw

\* what values([a, b, c], scope) does in that case, but for its store calls
BatchResult(o, a, b, c, scope, rv) ==
  LET scopeKey == serializeScope(scope)
  IN /\ o.outcome = "ok"
     /\ DOMAIN o.ret = {a, b, c}
     /\ o.ret[a] = cache[cacheKey(a, scopeKey)]
     /\ o.ret[b] = data[ArrayDriver_key(b, scopeKey)].value
     /\ o.ret[c] = rv
     /\ Len(o.invoked) = 1
     /\ o.invoked[1].feature = c
     /\ \A f \in {a, b, c} : Entry(o.cache, cacheKey(f, scopeKey)) = <<o.ret[f]>>

\* C16 (as stated): values([a, b, c], s) with a cached, b stored but not
\* cached and c in neither returns all three with exactly one resolver call
\* (for c) and exactly one store round-trip, and leaves all three cached.
C16_BatchOneRoundTrip ==
  \A a \in ThreeNames.features, scope \in ThreeNames.scopes :
    \A b \in ThreeNames.features \ {a} :
    \A c \in ThreeNames.features \ {a, b} :
      BatchCase(a, b, c, scope) =>
        \A rv \in ResolverResults(c, scope) :
          LET o == values(cache, data, definitions, classFeatures, <<a, b, c>>,
                          scope, Repeat(rv), 0, now)
          IN /\ BatchResult(o, a, b, c, scope, rv)
             /\ Len(o.storeCalls) = 1

\* C16 (amended): ... with exactly one resolver call (for c), exactly one
\* store read, the batched getMany for the misses, and one store write, the
\* set that persists the value resolved for c.
C16_BatchOneReadOneWrite ==
  \A a \in ThreeNames.features, scope \in ThreeNames.scopes :
    \A b \in ThreeNames.features \ {a} :
    \A c \in ThreeNames.features \ {a, b} :
      BatchCase(a, b, c, scope) =>
        \A rv \in ResolverResults(c, scope) :
          LET o == values(cache, data, definitions, classFeatures, <<a, b, c>>,
                          scope, Repeat(rv), 0, now)
          IN /\ BatchResult(o, a, b, c, scope, rv)
             /\ o.storeCalls = <<"getMany", "set">>
             /\ MapHas(o.data, ArrayDriver_key(c, serializeScope(scope)))
             /\ o.data[ArrayDriver_key(c, serializeScope(scope))].value = rv

\* 'feat' is cached, 'feat2' is stored and not cached, 'other' is defined and
\* unresolved
C16_Witness ==
  /\ BatchCase(FeatA, FeatB, FeatC, User1)
  /\ values(cache, data, definitions, classFeatures, <<FeatA, FeatB, FeatC>>,
            User1, Repeat(JsTrue), 0, now).outcome = "ok"

\* value(f, s) for each f of features, in order; rvs[i] is the result of the
\* i-th resolver call
RECURSIVE valueEach(_, _, _, _, _, _)
valueEach(st, defs, cls, features, scope, rvs) ==
  IF features = <<>> \/ st.outcome # "ok" THEN st
  ELSE LET f == Head(features)
           o == value(st.cache, st.data, defs, cls, f, scope,
                      rvs[Len(st.invoked) + 1], 0, now)
       IN valueEach([cache |-> o.cache, data |-> o.data, outcome |-> o.outcome,
                     ret |-> IF o.outcome = "ok" THEN MapSet(st.ret, f, o.ret)
                             ELSE st.ret,
                     invoked |-> st.invoked \o o.invoked,
                     storeCalls |-> st.storeCalls \o o.storeCalls,
                     events |-> st.events \o o.events],
                    defs, cls, Tail(features), scope, rvs)

\* how many of the resolver calls are for feature f
Invocations(invoked, f) ==
  Cardinality({i \in DOMAIN invoked : invoked[i].feature = f})

\* C17 (as stated): a successful values(features, s) returns a mapping whose
\* keys are the requested names, maps each f to what value(f, s) returns
\* when called for each f in order from the same cache and store, invokes
\* each resolver as often, and ends in the same cache and store.
C17_ValuesAsValueEach ==
  \A features \in OnePair.batches, scope \in OnePair.scopes :
    \A rv \in JsValues :
      LET o == values(cache, data, definitions, classFeatures, features, scope,
                      Repeat(rv), 0, now)
          each == valueEach(Outcome(cache, data, "ok", EmptyMap, <<>>, <<>>, <<>>),
                            definitions, classFeatures, features, scope, Repeat(rv))
          names == {features[i] : i \in DOMAIN features}
      IN (o.outcome = "ok" /\ \A f \in names : rv \in ResolverResults(f, scope)) =>
           /\ DOMAIN o.ret = names
           /\ each.outcome = "ok"
           /\ \A f \in names :
                /\ o.ret[f] = each.ret[f]
                /\ Invocations(o.invoked, f) = Invocations(each.invoked, f)
           /\ o.cache = each.cache
           /\ o.data = each.data

\* how many of the resolver calls are for pair (f, scopeKey)
InvocationsAt(invoked, f, scopeKey) ==
  Cardinality({i \in DOMAIN invoked :
                 invoked[i].feature = f /\ invoked[i].scope = scopeKey})

\* C18 (as stated): after a successful load(features, scopes) every pair
\* (f, s) of it has a store record and a cache entry with the same value; the
\* resolver was invoked exactly once for each pair that had no store record
\* and not at all for the others; and a later value() or active() of these
\* pairs makes no resolver call and no store call.
C18_LoadResolvesEachPairOnce ==
  \A features \in OnePair.batches, scopes \in OnePair.loadScopes :
    \A rv \in JsValues :
      LET o == load(cache, data, definitions, classFeatures, features, scopes,
                    Repeat(rv), 0, now)
          names == {features[i] : i \in DOMAIN features}
      IN (o.outcome = "ok" /\ \A f \in names, i \in DOMAIN scopes :
                                 rv \in ResolverResults(f, scopes[i])) =>
           \A f \in names, i \in DOMAIN scopes :
             LET scopeKey == serializeScope(scopes[i])
                 k == ArrayDriver_key(f, scopeKey)
                 v == value(o.cache, o.data, definitions, classFeatures, f,
                            scopes[i], rv, 0, now)
                 a == active(o.cache, o.data, definitions, classFeatures, f,
                             scopes[i], rv, 0, now)
             IN /\ MapHas(o.data, k)
                /\ Entry(o.cache, cacheKey(f, scopeKey)) = <<o.data[k].value>>
                /\ InvocationsAt(o.invoked, f, scopeKey)
                     = IF MapHas(data, k) THEN 0 ELSE 1
                /\ v.invoked = <<>> /\ v.storeCalls = <<>>
                /\ a.invoked = <<>> /\ a.storeCalls = <<>>

\* C19: active(f, s) is true iff the value that value(f, s) returns is
\* truthy (false, 0, the empty string, null and undefined are not; true,
\* non-empty strings and objects are), and inactive(f, s) is the negation of
\* active(f, s) on the same state; both fail when value() fails, and leave
\* the cache and the store as value() does.
C19_ActiveIsTruthiness ==
  \A feature \in OnePair.features, scope \in OnePair.scopes :
    \A rv \in JsAllValues, fail \in 0..2 :
      LET v == value(cache, data, definitions, classFeatures, feature, scope,
                     rv, fail, now)
          a == active(cache, data, definitions, classFeatures, feature, scope,
                      rv, fail, now)
          i == inactive(cache, data, definitions, classFeatures, feature, scope,
                        rv, fail, now)
          Same(o) == /\ o.outcome = v.outcome
                     /\ o.cache = v.cache
                     /\ o.data = v.data
                     /\ o.invoked = v.invoked
      IN /\ Same(a) /\ Same(i)
         /\ v.outcome = "ok" =>
              /\ v.ret \in {JsTrue, JsVariant, JsObject} => a.ret = JsTrue
              /\ v.ret \in {JsFalse, JsZero, JsEmptyString, JsNull, JsUndefined}
                   => a.ret = JsFalse
              /\ a.ret \in {JsTrue, JsFalse}
              /\ i.ret = IF a.ret = JsTrue THEN JsFalse ELSE JsTrue

\* a rich value is cached for one pair and null for the other: active() is
\* true for the first and false for the second
C19_Witness ==
  \E feature \in OnePair.features, s1 \in OnePair.scopes, s2 \in OnePair.scopes :
    /\ Entry(cache, cacheKey(feature, serializeScope(s1))) = <<JsVariant>>
    /\ Entry(cache, cacheKey(feature, serializeScope(s2))) = <<JsNull>>
    /\ active(cache, data, definitions, classFeatures, feature, s1,
              JsUndefined, 0, now).ret = JsTrue
    /\ inactive(cache, data, definitions, classFeatures, feature, s2,
                JsUndefined, 0, now).ret = JsTrue

\* C20: when(f, onActive, onInactive, s) resolves the value once, as
\* value(f, s) does, and calls exactly one callback exactly once: onActive
\* with the value when it is truthy, otherwise onInactive with no argument;
\* its result is the result of that call.
C20_WhenDispatchesOnce ==
  \A feature \in OnePair.features, scope \in OnePair.scopes :
    \A rv \in JsAllValues, fail \in 0..2 :
      LET v == value(cache, data, definitions, classFeatures, feature, scope,
                     rv, fail, now)
          w == when(cache, data, definitions, classFeatures, feature, scope,
                    rv, fail, now)
      IN /\ w.outcome = v.outcome
         /\ w.invoked = v.invoked
         /\ Len(w.invoked) <= 1
         /\ w.storeCalls = v.storeCalls
         /\ w.cache = v.cache
         /\ w.data = v.data
         /\ v.outcome = "ok" =>
              /\ Len(w.ret.calls) = 1
              /\ w.ret.result = [resultOf |-> w.ret.calls[1]]
              /\ v.ret \in {JsTrue, JsVariant, JsObject} =>
                   w.ret.calls[1] = [callback |-> "onActive", args |-> <<v.ret>>]
              /\ v.ret \in {JsFalse, JsZero, JsEmptyString, JsNull, JsUndefined} =>
                   w.ret.calls[1] = [callback |-> "onInactive", args |-> <<>>]

\* a defined feature is unresolved for a pair: when() resolves a rich value
\* and hands it to onActive; false is cached for the other pair and goes to
\* onInactive
C20_Witness ==
  \E feature \in OnePair.features, s1 \in OnePair.scopes, s2 \in OnePair.scopes :
    LET w == when(cache, data, definitions, classFeatures, feature, s1,
                  JsVariant, 0, now)
        x == when(cache, data, definitions, classFeatures, feature, s2,
                  JsVariant, 0, now)
    IN /\ JsVariant \in ResolverResults(feature, s1)
       /\ Len(w.invoked) = 1
       /\ w.outcome = "ok"
       /\ w.ret.calls = <<[callback |-> "onActive", args |-> <<JsVariant>>]>>
       /\ Entry(cache, cacheKey(feature, serializeScope(s2))) = <<JsFalse>>
       /\ x.ret.calls = <<[callback |-> "onInactive", args |-> <<>>]>>

\* C21: when a name is registered with define and with defineClass, in
\* either order, resolving an unresolved pair calls the function-based
\* resolver and never the class's resolve(); resolve() of the class is
\* called only when the name has no function-based definition.
C21_FunctionDefinitionFirst ==
  \A feature \in OnePair.features, scope \in OnePair.scopes :
    \A rv \in JsValues, fail \in {0, 2} :
      LET o == value(cache, data, definitions, classFeatures, feature, scope,
                     rv, fail, now)
          b == values(cache, data, definitions, classFeatures, <<feature>>,
                      scope, <<rv>>, fail, now)
          l == load(cache, data, definitions, classFeatures, <<feature>>,
                    <<scope>>, <<rv>>, fail, now)
          Right(call) ==
            /\ MapHas(definitions, feature) => call.via = "closure"
            /\ call.via = "class" =>
                 /\ ~MapHas(definitions, feature)
                 /\ MapHas(classFeatures, feature)
            /\ call.via \in {"closure", "class"}
      IN /\ \A i \in DOMAIN o.invoked : Right(o.invoked[i])
         /\ \A i \in DOMAIN b.invoked : Right(b.invoked[i])
         /\ \A i \in DOMAIN l.invoked : Right(l.invoked[i])
         /\ MapHas(definitions, feature) =>
              ResolverResults(feature, scope)
                = Returns(definitions[feature], serializeScope(scope))

\* 'feat' is defined as the constant true and class Feat is registered under
\* 'feat' too; the pair is unresolved and value() calls the function
C21_Witness ==
  \E feature \in OnePair.features, scope \in OnePair.scopes :
    LET o == value(cache, data, definitions, classFeatures, feature, scope,
                   JsTrue, 0, now)
    IN /\ MapHas(definitions, feature)
       /\ MapHas(classFeatures, feature)
       /\ definitions[feature] # classFeatures[feature].resolve
       /\ Len(o.invoked) = 1
       /\ o.invoked[1].via = "closure"
       /\ o.ret = JsTrue

\* C22: exactly one definition exists per name: a later registration under
\* a name replaces the earlier one, and defined() lists every registered
\* name exactly once, so that its length is the number of distinct
\* registered names.
C22_OneDefinitionPerName ==
  LET names == defined(definitions, classFeatures)
  IN /\ \A name \in DOMAIN names : names[name] = 1
     /\ definedLength(definitions, classFeatures) = Cardinality(DOMAIN names)
     /\ \A name \in DOMAIN names :
          ~(MapHas(definitions, name) /\ MapHas(classFeatures, name))

C24_UnknownDriverFailsAtAccess ==
  /\ \A settings \in Drivers.settings : construct(settings).configured
  /\ config.configured =>
       \A name \in Drivers.names :
         LET s == store(config, stores, extensions, name, made)
             key == IF name.given THEN name.name ELSE config.default
             entry == config.drivers[key]
             kind == IF entry.hasDriver THEN entry.driver ELSE key
             known == /\ MapHas(config.drivers, key)
                      /\ \/ MapHas(extensions, kind)
                         \/ kind \in {"database", "array"}
         IN /\ s.threw <=> ~known
            /\ s.threw =>
                 /\ s.error = "ConfigurationError"
                 /\ s.message \in {DriverNotConfiguredMessage, UnknownDriverMessage}
                 /\ s.stores = stores
                 /\ s.made = made
                 /\ MapHas(config.drivers, key) =>
                      \A factory \in Drivers.factories :
                        LET t == store(config, s.stores,
                                       extend(extensions, kind, factory),
                                       name, s.made)
                        IN /\ ~t.threw
                           /\ t.store.madeBy = factory.name
                           /\ t.stores[key] = t.store
            /\ (~s.threw /\ ~MapHas(stores, key)) =>
                 IF MapHas(extensions, kind)
                 THEN /\ s.store.madeBy = extensions[kind].name
                      /\ s.store.class = extensions[kind].creates
                 ELSE /\ s.store.madeBy = "createStore"
                      /\ s.store.class = IF kind = "array" THEN "ArrayDriver"
                                         ELSE "DatabaseDriver"

\* the manager is constructed on { default: 'custom', drivers: { custom } }
\* and another store was made by a factory registered under 'array'; no
\* factory is registered under 'custom', and store() fails
C24_Witness ==
  /\ config = construct(CustomSettings)
  /\ ~MapHas(extensions, "custom")
  /\ MapHas(extensions, "array")
  /\ store(config, stores, extensions, NoName, made).threw
  /\ store(config, stores, extensions, NoName, made).message = UnknownDriverMessage
  /\ store(config, stores, extensions, Named("array"), made).message
       = DriverNotConfiguredMessage
  /\ ~store(config, stores, extend(extensions, "custom", ArrayFactory),
            NoName, made).threw

\* the operations that need the store, on feature and scope, as they go
\* from cache c and data d under definitions defs and cls
StoreOperations(c, d, defs, cls, keys, feature, scope) ==
  <<value(c, d, defs, cls, feature, scope, JsTrue, 0, now),
   active(c, d, defs, cls, feature, scope, JsTrue, 0, now),
   values(c, d, defs, cls, <<feature>>, scope, <<JsTrue>>, 0, now),
   load(c, d, defs, cls, <<feature>>, <<scope>>, <<JsTrue>>, 0, now),
   activate(c, d, feature, JsUndefined, scope, 0, now),
   deactivate(c, d, feature, scope, 0, now),
   forget(c, d, feature, scope, 0),
   purge(c, d, feature, 0),
   purgeAll(c, d, 0),
   FlagManager_stored(c, d, keys, 0)>>

\* reading the configuration, store() and every operation that needs the
\* store fail with the not-configured error
NotConfiguredFails(cfg, sts, exts, c, d, defs, cls, keys) ==
  /\ FlagManager_config(cfg).threw
  /\ FlagManager_config(cfg).error = "ConfigurationError"
  /\ FlagManager_config(cfg).message = NotConfiguredMessage
  /\ \A name \in Drivers.names :
       LET s == store(cfg, sts, exts, name, made)
       IN s.threw /\ s.error = "ConfigurationError"
          /\ s.message = NotConfiguredMessage
  /\ \A feature \in OneConstant.features, scope \in OneConstant.scopes :
       \A i \in DOMAIN StoreOperations(c, d, defs, cls, keys, feature, scope) :
         LET o == StoreOperations(c, d, defs, cls, keys, feature, scope)[i]
             s == storeAccess(o, cfg, sts, exts, made)
             r == Through(o, c, d, s)
         IN /\ o.storeCalls # <<>>
            /\ s.threw /\ s.message = NotConfiguredMessage
            /\ r.outcome = "ConfigurationError"
            /\ r.cache = c /\ r.data = d /\ r.invoked = <<>>

\* C25: reset() clears the function-based definitions, the class-based
\* definitions, the cache, the factory registry, the held store instances
\* and the configuration.  Before construction and after reset(), reading
\* the configuration and every operation that needs the store fail with the
\* not-configured ConfigurationError.  After the manager is constructed
\* again, no definition, cached value or stored value of the array store
\* from before the reset can be observed.
C25_ResetClearsEverything ==
  /\ [](LET r == reset(stores, extensions, definitions, classFeatures, cache, config)
            d == HeldData(r.stores, config.default, data)
            keys == Iteration(order, d, <<>>)
            again == store(config, r.stores, r.extensions, NoName, made)
        IN /\ r.definitions = EmptyMap /\ r.classFeatures = EmptyMap
           /\ r.cache = EmptyMap /\ r.extensions = EmptyMap
           /\ r.stores = EmptyMap /\ r.config = NotConfigured
           /\ NotConfiguredFails(r.config, r.stores, r.extensions, r.cache, d,
                                 r.definitions, r.classFeatures, keys)
           /\ ~config.configured =>
                /\ cache = EmptyMap /\ data = EmptyMap /\ stores = EmptyMap
                /\ NotConfiguredFails(config, stores, extensions, cache, data,
                                      definitions, classFeatures, order)
           \* constructed again on the same configuration
           /\ config.configured =>
                /\ defined(r.definitions, r.classFeatures) = EmptyMap
                /\ ~again.threw =>
                     /\ again.made = made + 1
                     /\ \A key \in DOMAIN stores : stores[key] # again.store
                /\ FlagManager_stored(r.cache, d, keys, 0).ret = <<>>
                /\ \A feature \in OneConstant.features, scope \in OneConstant.scopes :
                     LET o == value(r.cache, d, r.definitions, r.classFeatures,
                                    feature, scope, JsTrue, 0, now)
                     IN /\ o.outcome = "FeatureNotDefinedError"
                        /\ o.storeCalls = <<"get">>
                        /\ o.invoked = <<>>)
  /\ [][(config.configured /\ ~config'.configured) =>
          /\ definitions' = EmptyMap /\ classFeatures' = EmptyMap
          /\ cache' = EmptyMap /\ extensions' = EmptyMap
          /\ stores' = EmptyMap /\ data' = EmptyMap]_vars

\* a constructed manager with a definition of each kind, a registered
\* factory, a held store, a stored record and a cached value: reset() clears
\* them all
C25_Witness ==
  /\ config.configured
  /\ definitions # EmptyMap /\ classFeatures # EmptyMap
  /\ extensions # EmptyMap /\ stores # EmptyMap
  /\ cache # EmptyMap /\ data # EmptyMap
  /\ reset(stores, extensions, definitions, classFeatures, cache, config).config
       = NotConfigured
  /\ HeldData(reset(stores, extensions, definitions, classFeatures, cache,
                    config).stores, config.default, data) = EmptyMap

\* the type discriminator of a scope object
ScopeType(scope) ==
  IF scope.hasFeatureScope THEN scope.featureScope ELSE scope.constructorName

\* C26: serializeScope(null) and serializeScope(undefined) are the global
\* sentinel '__global__'; for a scope object the result is '<type>:<id>',
\* the type being what featureScope() returns when the scope has that
\* function and the name of its constructor otherwise; no scope object
\* serializes to the global sentinel.  Every key of the cache and of the
\* store is built from such a scope key.
C26_ScopeKeyFormat ==
  /\ serializeScope(NullScope) = GLOBAL_SCOPE
  /\ serializeScope(UndefinedScope) = GLOBAL_SCOPE
  /\ GLOBAL_SCOPE = <<"_", "_", "g", "l", "o", "b", "a", "l", "_", "_">>
  /\ serializeScope(Team7) = <<"T", "e", "a", "m", ":", "7">>
  /\ serializeScope(Organization99)
       = <<"O", "r", "g", "a", "n", "i", "z", "a", "t", "i", "o", "n", ":", "9", "9">>
  /\ \A scope \in ScopeSamples :
       scope.tag = "object" =>
         /\ serializeScope(scope)
              = ScopeType(scope) \o <<":">> \o TemplateString(scope.id)
         /\ serializeScope(scope) # GLOBAL_SCOPE
  /\ \A k \in DOMAIN data \cup DOMAIN cache :
       \E feature \in ScopeKinds.features, scope \in ScopeKinds.scopes :
         k = feature \o <<NUL>> \o IF scope.tag = "object"
                                   THEN ScopeType(scope) \o <<":">>
                                          \o TemplateString(scope.id)
                                   ELSE GLOBAL_SCOPE

\* values are stored and cached for the global scope and for an instance of
\* a class without featureScope()
C26_Witness ==
  /\ MapHas(data, FeatA \o <<NUL>> \o GLOBAL_SCOPE)
  /\ MapHas(cache, FeatA \o <<NUL>> \o GLOBAL_SCOPE)
  /\ MapHas(data, ArrayDriver_key(FeatA, serializeScope(Organization99)))
  /\ MapHas(cache, cacheKey(FeatA, serializeScope(Organization99)))
  /\ ~Organization99.hasFeatureScope

\* C27: serializeScope is injective over (type, id) pairs: two scopes have
\* the same scope key only if they have the same type and the same id, so
\* that two distinct (type, id) pairs never share a store record or a cache
\* entry of a feature.
C27_ScopeKeyInjective ==
  \A s1 \in ScopeSamples, s2 \in ScopeSamples :
    (s1.tag = "object" /\ s2.tag = "object") =>
      /\ serializeScope(s1) = serializeScope(s2) =>
           (ScopeType(s1) = ScopeType(s2) /\ s1.id = s2.id)
      /\ (ScopeType(s1) # ScopeType(s2) \/ s1.id # s2.id) =>
           \A feature \in ScopeKinds.features :
             LET o == activate(cache, data, feature, JsVariant, s1, 0, now)
             IN /\ Entry(o.cache, cacheKey(feature, serializeScope(s2)))
                     = Entry(cache, cacheKey(feature, serializeScope(s2)))
                /\ Entry(o.data, ArrayDriver_key(feature, serializeScope(s2)))
                     = Entry(data, ArrayDriver_key(feature, serializeScope(s2)))

\* C28: the store holds at most one record per (feature, scope); set is an
\* upsert that replaces the value, keeps createdAt as the first write set it
\* and sets updatedAt to the time of the write; so createdAt <= updatedAt
\* always, and the createdAt of a pair changes only when its record is
\* deleted and written anew.
C28_CreatedAtFixedUpdatedAtAdvances ==
  /\ [](/\ \A k \in DOMAIN data :
             /\ data[k].createdAt <= data[k].updatedAt
             /\ data[k].updatedAt <= now
        /\ \A feature \in OneConstant.features, scope \in OneConstant.scopes \cup {NullScope} :
             \A val \in JsValues :
               LET scopeKey == serializeScope(scope)
                   k == ArrayDriver_key(feature, scopeKey)
                   d == ArrayDriver_set(data, feature, scopeKey, val, now)
               IN /\ DOMAIN d = DOMAIN data \cup {k}
                  /\ \A other \in DOMAIN data \ {k} : d[other] = data[other]
                  /\ d[k].value = val
                  /\ d[k].updatedAt = now
                  /\ d[k].createdAt = IF MapHas(data, k) THEN data[k].createdAt
                                      ELSE now
                  /\ d[k].createdAt <= d[k].updatedAt)
  /\ [][\A k \in DOMAIN data \cap DOMAIN data' :
          /\ data'[k].createdAt = data[k].createdAt
          /\ data'[k].updatedAt >= data[k].updatedAt
          /\ data'[k] # data[k] => data'[k].updatedAt = now]_vars

\* a record was first written at time 1 and overwritten at time 2, and the
\* record of another pair was written after that
C28_Witness ==
  \E k \in DOMAIN data, other \in DOMAIN data :
    /\ data[k].createdAt = 1
    /\ data[k].updatedAt = 2
    /\ now = 2
    /\ other # k
    /\ data[other].createdAt = 2

\* the characters of the names, in the order of their code units
CodeOrder ==
  <<NUL, "-">> \o DigitChars \o <<":">> \o UpperChars \o <<"_">> \o LowerChars

CodeOf(ch) == CHOOSE i \in DOMAIN CodeOrder : CodeOrder[i] = ch

\* a < b for strings
RECURSIVE Precedes(_, _)
Precedes(a, b) ==
  IF b = <<>> THEN FALSE
  ELSE IF a = <<>> THEN TRUE
  ELSE IF Head(a) # Head(b) THEN CodeOf(Head(a)) < CodeOf(Head(b))
  ELSE Precedes(Tail(a), Tail(b))

\* C29: featureNames(), and stored() on top of it, returns for every
\* reachable state of the store the sorted list of the distinct feature names
\* that have at least one record: no name twice, no name without a record,
\* in ascending order; the in-memory driver included.
C29_FeatureNamesSorted ==
  LET names == ArrayDriver_featureNames(data, order)
  IN /\ \A i \in DOMAIN names, j \in DOMAIN names : names[i] = names[j] => i = j
     /\ Range(names) = {BeforeNul(k) : k \in DOMAIN data}
     /\ \A i \in DOMAIN names, j \in DOMAIN names :
          i < j => Precedes(names[i], names[j])
     /\ FlagManager_stored(cache, data, order, 0).ret = names

\* C30: in the in-memory driver getMany(features, scope) agrees with get
\* pointwise: the mapping holds feature f iff get(f, scope) reports a value
\* and not absence, with the same value, and holds no feature that was not
\* requested or has no record for the scope; for every storable value.
C30_GetManyAsGet ==
  \A features \in OnePair.batches, scope \in OnePair.scopes :
    LET scopeKey == serializeScope(scope)
        many == ArrayDriver_getMany(data, features, scopeKey)
    IN /\ DOMAIN many \subseteq Range(features)
       /\ \A f \in DOMAIN many : MapHas(data, ArrayDriver_key(f, scopeKey))
       /\ \A f \in Range(features) :
            /\ f \in DOMAIN many <=> ArrayDriver_get(data, f, scopeKey) # JsUndefined
            /\ f \in DOMAIN many => many[f] = ArrayDriver_get(data, f, scopeKey)


(***************************************************************************)
(* Cache flushing, the scoped handle, notifications.                       *)
(***************************************************************************)
\* the store's data after a set made on the driver itself, behind the cache
BehindTheCache(d, feature, scopeKey) ==
  {d} \cup {ArrayDriver_set(d, feature, scopeKey, v, now) : v \in JsValues}

\* C31 (as stated): flushCache() removes every cache entry and touches
\* nothing else; the next value(f, s) returns the current value of the
\* store's record for the pair, also when the record was set on the driver
\* behind the cache, and does not invoke the resolver.
C31_FlushCacheRereadsStore ==
  /\ flushCache(cache) = EmptyMap
  /\ \A feature \in OnePair.features, scope \in OnePair.scopes :
       LET scopeKey == serializeScope(scope)
           key == ArrayDriver_key(feature, scopeKey)
       IN \A d \in BehindTheCache(data, feature, scopeKey) :
            MapHas(d, key) =>
              \A rv \in ResolverResults(feature, scope) :
                LET o == value(flushCache(cache), d, definitions, classFeatures,
                               feature, scope, rv, 0, now)
                IN /\ o.outcome = "ok"
                   /\ o.ret = d[key].value
                   /\ o.invoked = <<>>
                   /\ o.data = d

\* C31 without the records whose value is undefined
C31_DefinedRecords ==
  \A feature \in OnePair.features, scope \in OnePair.scopes :
    LET scopeKey == serializeScope(scope)
        key == ArrayDriver_key(feature, scopeKey)
    IN \A d \in BehindTheCache(data, feature, scopeKey) :
         (MapHas(d, key) /\ d[key].value # JsUndefined) =>
           \A rv \in ResolverResults(feature, scope) :
             LET o == value(flushCache(cache), d, definitions, classFeatures,
                            feature, scope, rv, 0, now)
             IN /\ o.outcome = "ok"
                /\ o.ret = d[key].value
                /\ o.invoked = <<>>
                /\ o.data = d


\* new PendingScopedFeature(scope): the handle holds the scope, nothing else
PendingScopedFeature(scope) == [scope |-> scope]

\* a for() whose handle has lost the scope
forNoScope(scope) == PendingScopedFeature(UndefinedScope)

\* FlagManager.for
FlagManager_for(scope) == PendingScopedFeature(scope)

\* the methods of PendingScopedFeature
Scoped_value(h, c, d, defs, cls, feature, rv, fail, date) ==
  value(c, d, defs, cls, feature, h.scope, rv, fail, date)

Scoped_active(h, c, d, defs, cls, feature, rv, fail, date) ==
  active(c, d, defs, cls, feature, h.scope, rv, fail, date)

Scoped_inactive(h, c, d, defs, cls, feature, rv, fail, date) ==
  inactive(c, d, defs, cls, feature, h.scope, rv, fail, date)

Scoped_when(h, c, d, defs, cls, feature, rv, fail, date) ==
  when(c, d, defs, cls, feature, h.scope, rv, fail, date)

Scoped_activate(h, c, d, feature, val, fail, date) ==
  activate(c, d, feature, val, h.scope, fail, date)

Scoped_deactivate(h, c, d, feature, fail, date) ==
  deactivate(c, d, feature, h.scope, fail, date)

Scoped_forget(h, c, d, feature, fail) ==
  forget(c, d, feature, h.scope, fail)

Scoped_values(h, c, d, defs, cls, features, rvs, fail, date) ==
  values(c, d, defs, cls, features, h.scope, rvs, fail, date)

Scoped_load(h, c, d, defs, cls, features, rvs, fail, date) ==
  load(c, d, defs, cls, features, <<h.scope>>, rvs, fail, date)

\* C32: every operation of the handle for(scope) ends as the manager's
\* operation called with that scope does: same result, same cache, same
\* store, same resolver calls, same notifications; its load(features) is the
\* manager's load(features, [scope]); the handle holds the scope only.
C32_ScopedHandleIsFacade ==
  \A scope \in OnePair.scopes :
    LET h == FlagManager_for(scope)
    IN /\ DOMAIN h = {"scope"}
       /\ \A feature \in OnePair.features :
            /\ \A fail \in 0..2, rv \in ResolverResults(feature, scope) :
                 /\ Scoped_value(h, cache, data, definitions, classFeatures,
                                 feature, rv, fail, now)
                      = value(cache, data, definitions, classFeatures, feature,
                              scope, rv, fail, now)
                 /\ Scoped_active(h, cache, data, definitions, classFeatures,
                                  feature, rv, fail, now)
                      = active(cache, data, definitions, classFeatures, feature,
                               scope, rv, fail, now)
                 /\ Scoped_inactive(h, cache, data, definitions, classFeatures,
                                    feature, rv, fail, now)
                      = inactive(cache, data, definitions, classFeatures, feature,
                                 scope, rv, fail, now)
                 /\ Scoped_when(h, cache, data, definitions, classFeatures,
                                feature, rv, fail, now)
                      = when(cache, data, definitions, classFeatures, feature,
                             scope, rv, fail, now)
            /\ \A fail \in 0..1 :
                 /\ \A val \in OnePair.activateArgs :
                      Scoped_activate(h, cache, data, feature, val, fail, now)
                        = activate(cache, data, feature, val, scope, fail, now)
                 /\ Scoped_deactivate(h, cache, data, feature, fail, now)
                      = deactivate(cache, data, feature, scope, fail, now)
                 /\ Scoped_forget(h, cache, data, feature, fail)
                      = forget(cache, data, feature, scope, fail)
       /\ \A features \in OnePair.batches :
            /\ \A fail \in ValuesFails(features, scope) :
                 \A rvs \in ValuesResults(features, scope, fail) :
                   Scoped_values(h, cache, data, definitions, classFeatures,
                                 features, rvs, fail, now)
                     = values(cache, data, definitions, classFeatures, features,
                              scope, rvs, fail, now)
            /\ \A fail \in LoadFails(features, <<scope>>) :
                 \A rvs \in LoadResults(features, <<scope>>, fail) :
                   Scoped_load(h, cache, data, definitions, classFeatures,
                               features, rvs, fail, now)
                     = load(cache, data, definitions, classFeatures, features,
                            <<scope>>, rvs, fail, now)

\* the global pair is resolved and cached, User:1 is not: the handle of
\* User:1 resolves where the manager at no scope answers from the cache,
\* and its activate writes a record the store does not hold yet
C32_Witness ==
  /\ MapHas(definitions, FeatA)
  /\ MapHas(cache, cacheKey(FeatA, GLOBAL_SCOPE))
  /\ ~MapHas(data, ArrayDriver_key(FeatA, serializeScope(User1)))
  /\ \E rv \in ResolverResults(FeatA, User1) :
       Scoped_value(FlagManager_for(User1), cache, data, definitions,
                    classFeatures, FeatA, rv, 0, now).invoked # <<>>


\* the resolver calls of a finished call whose value was persisted: all of
\* them, but the last one when the store's set threw on it
Persisted(o) ==
  IF o.outcome = "StoreError" /\ o.invoked # <<>>
     /\ o.storeCalls[Len(o.storeCalls)] = "set"
  THEN SubSeq(o.invoked, 1, Len(o.invoked) - 1)
  ELSE o.invoked

\* one resolved notification per persisted resolver call, in the order of
\* the calls, and nothing else; the last notification's value is the one the
\* store and the cache hold for its pair
ResolvedPerResolution(o) ==
  /\ o.events = [i \in 1..Len(Persisted(o)) |->
                   ValueEvent("flag:resolved", Persisted(o)[i].feature,
                              Persisted(o)[i].scope, Persisted(o)[i].result)]
  /\ o.events # <<>> =>
       LET ev == o.events[Len(o.events)]
       IN /\ Entry(o.cache, cacheKey(ev.feature, ev.scope)) = <<ev.value>>
          /\ MapHas(o.data, ArrayDriver_key(ev.feature, ev.scope))
          /\ o.data[ArrayDriver_key(ev.feature, ev.scope)].value = ev.value

\* the same for value() and values() alone
C33_ValueAndValues ==
  \A scope \in OnePair.scopes :
    /\ \A feature \in OnePair.features :
         \A fail \in ReadFails(feature, scope) :
           \A rv \in ReadResults(feature, scope, fail) :
             ResolvedPerResolution(
               value(cache, data, definitions, classFeatures, feature, scope,
                     rv, fail, now))
    /\ \A features \in OnePair.batches :
         \A fail \in ValuesFails(features, scope) :
           \A rvs \in ValuesResults(features, scope, fail) :
             ResolvedPerResolution(
               values(cache, data, definitions, classFeatures, features, scope,
                      rvs, fail, now))

\* C33 (as stated): value(), values() and load() emit one resolved
\* notification {feature, scope, value} per resolver call whose value was
\* persisted, after the value is in the store and in the cache, and none
\* for a read served from the cache or from the store.
C33_ResolvedOncePerResolution ==
  /\ C33_ValueAndValues
  /\ \A features \in OnePair.batches, scopes \in OnePair.loadScopes :
       \A fail \in LoadFails(features, scopes) :
         \A rvs \in LoadResults(features, scopes, fail) :
           ResolvedPerResolution(
             load(cache, data, definitions, classFeatures, features, scopes,
                  rvs, fail, now))


\* a call that failed in the store changed nothing and announced nothing
Unannounced(o) ==
  o.outcome # "ok" => o.events = <<>> /\ o.cache = cache /\ o.data = data

\* an update of (feature, scopeKey) is announced once, with the value that
\* the store and the cache hold when the call ends
UpdatedOnce(o, feature, scopeKey) ==
  /\ Unannounced(o)
  /\ o.outcome = "ok" =>
       /\ Len(o.events) = 1
       /\ o.events[1].name = "flag:updated"
       /\ o.events[1].feature = feature
       /\ o.events[1].scope = scopeKey
       /\ MapHas(o.data, ArrayDriver_key(feature, scopeKey))
       /\ o.events[1] = ValueEvent("flag:updated", feature, scopeKey,
                                   o.data[ArrayDriver_key(feature, scopeKey)].value)
       /\ Entry(o.cache, cacheKey(feature, scopeKey)) = <<o.events[1].value>>

\* a deletion is announced once as (feature, scope), when the store and the
\* cache hold nothing of the pairs in `gone` any more
DeletedOnce(o, feature, scope, gone) ==
  /\ Unannounced(o)
  /\ o.outcome = "ok" =>
       /\ o.events = <<DeletedEvent(feature, scope)>>
       /\ \A k \in gone : ~MapHas(o.data, k) /\ ~MapHas(o.cache, k)

\* C34: a successful activate/deactivate emits exactly one updated
\* notification with the scope key and the written value; a successful
\* forget, purge, purgeAll emits exactly one deleted notification with
\* (feature, scope key), (feature, '*'), ('*', '*'); the store and the cache
\* are changed by then, whether or not something was stored for the target;
\* a call whose store operation failed emits nothing.
C34_UpdatedAndDeletedOnce ==
  /\ \A feature \in OnePair.features, scope \in OnePair.scopes, fail \in 0..1 :
       LET scopeKey == serializeScope(scope)
       IN /\ \A val \in OnePair.activateArgs :
               LET o == activate(cache, data, feature, val, scope, fail, now)
               IN /\ UpdatedOnce(o, feature, scopeKey)
                  /\ o.outcome = "ok" => o.events[1].value = Given(val)
          /\ LET o == deactivate(cache, data, feature, scope, fail, now)
             IN /\ UpdatedOnce(o, feature, scopeKey)
                /\ o.outcome = "ok" => o.events[1].value = JsFalse
          /\ DeletedOnce(forget(cache, data, feature, scope, fail),
                         feature, scopeKey, {cacheKey(feature, scopeKey)})
          /\ DeletedOnce(purge(cache, data, feature, fail), feature, Star,
                         {k \in MapKeys(cache) \cup MapKeys(data) :
                            StartsWith(k, feature \o <<NUL>>)})
  /\ \A fail \in 0..1 :
       DeletedOnce(purgeAll(cache, data, fail), Star, Star,
                   MapKeys(cache) \cup MapKeys(data))

\* the pair at User:1 is stored and cached and nothing is stored for the
\* global pair: forget announces the deletion of either
C34_Witness ==
  /\ MapHas(data, ArrayDriver_key(FeatA, serializeScope(User1)))
  /\ MapHas(cache, cacheKey(FeatA, serializeScope(User1)))
  /\ ~MapHas(data, ArrayDriver_key(FeatA, GLOBAL_SCOPE))
  /\ forget(cache, data, FeatA, UndefinedScope, 0).events
       = <<DeletedEvent(FeatA, GLOBAL_SCOPE)>>
  /\ forget(cache, data, FeatA, User1, 0).data # data


(***************************************************************************)
(* Coherence of cache and store.                                           *)
(***************************************************************************)
\* every entry of cache c has a record in d that holds the same value (the
\* cache and the ArrayDriver key a pair alike: feature, NUL, scope key)
Coherent(c, d) ==
  \A k \in MapKeys(c) : MapHas(d, k) /\ d[k].value = c[k]

\* C37: when the manager's operations do not overlap and the store changes
\* through the manager only, every cache entry has a store record for its
\* pair with the same value, whichever operations succeeded or failed.
C37_CacheStoreCoherent == Coherent(cache, data)

\* both pairs are cached, one of them by an explicit write, and a resolved
\* undefined is among the cached values
C37_Witness ==
  /\ Cardinality(MapKeys(cache)) = 2
  /\ written # EmptyMap
  /\ \E k \in MapKeys(cache) : cache[k] = JsUndefined


(***************************************************************************)
(* Failure of a batch.                                                     *)
(***************************************************************************)
\* a call that ended on a feature without a definition did nothing
NothingDone(o) ==
  o.outcome = "FeatureNotDefinedError" =>
    /\ o.cache = cache
    /\ o.data = data
    /\ o.invoked = <<>>
    /\ o.events = <<>>

\* C39 (as stated): a values() or load() that fails because a requested
\* feature is not defined leaves the store and the cache as they were: no
\* other feature of the call was resolved, persisted, cached or announced.
C39_NotDefinedLeavesNothing ==
  \A features \in ThreeNames.batches :
    /\ \A scope \in ThreeNames.scopes :
         \A rvs \in ValuesResults(features, scope, 0) :
           NothingDone(values(cache, data, definitions, classFeatures, features,
                              scope, rvs, 0, now))
    /\ \A scopes \in ThreeNames.loadScopes :
         \A rvs \in LoadResults(features, scopes, 0) :
           NothingDone(load(cache, data, definitions, classFeatures, features,
                            scopes, rvs, 0, now))

(***************************************************************************)
(* Overlapping calls.  Every operation of the manager is an async          *)
(* function: it runs without interruption from one await to the next, and  *)
(* other calls run while it awaits.  It awaits the store (the FeatureStore *)
(* contract is asynchronous: a request takes effect in the store at some   *)
(* moment after it is made, and the caller is resumed at some moment after *)
(* that) and the resolver (which may return a promise).  The awaited       *)
(* Emitter.emit that ends an operation is taken with the step that makes   *)
(* it: nothing of the manager follows it.                                  *)
(*                                                                         *)
(* pc of a call: "store" (a store request is made and not yet served),     *)
(* "resume" (the request is served, the caller not yet resumed),           *)
(* "resolver" (the resolver is invoked and has not returned), "done".      *)
(***************************************************************************)
\* no resolver is awaited
NoResolver == [kind |-> "none", val |-> JsUndefined]

\* a call of operation op as it is made: its arguments, and what it has done
\* so far (the resolver calls, the store requests and the notifications it
\* made, as in Outcome).  overtaken lists the value of an explicit write
\* that ended while this value() was awaiting its resolver.
Call(op, features, scopes, arg) ==
  [op |-> op, features |-> features, scopes |-> scopes, arg |-> arg,
   pc |-> "begin", request |-> "none", si |-> 1, todo |-> <<>>,
   val |-> JsUndefined, stored |-> EmptyMap, resolver |-> NoResolver,
   result |-> EmptyMap, ret |-> JsUndefined, outcome |-> "pending",
   invoked |-> <<>>, storeCalls |-> <<>>, events |-> <<>>,
   overtaken |-> <<>>]

\* the scope key the call works at: serializeScope of its scope, for load of
\* the scope its loop has come to
ScopeKeyOf(k) == serializeScope(k.scopes[k.si])

\* the feature the call resolves or writes: for values and load the one
\* their loop has come to
CurrentFeature(k) ==
  IF k.op \in {"values", "load"} THEN Head(k.todo) ELSE k.features[1]

\* the call returns, or throws `outcome`
Finish(k, outcome) == [k EXCEPT !.pc = "done", !.outcome = outcome]

\* await store.<name>(...)
Request(k, name) ==
  [k EXCEPT !.pc = "store", !.request = name, !.storeCalls = Append(@, name)]

\* await FlagManager.resolveFeature(feature, scopeKey): the resolver is
\* looked up and invoked on the spot; its result is awaited
Invoke(k, defs, cls) ==
  LET r == resolveFeature(defs, cls, CurrentFeature(k))
  IN IF r.threw
     THEN Finish(k, "FeatureNotDefinedError")
     ELSE [k EXCEPT !.pc = "resolver", !.resolver = r.resolver,
                    !.invoked = Append(@, Invocation(CurrentFeature(k),
                                                     ScopeKeyOf(k), r.via,
                                                     JsUndefined))]

\* the resolver returns rv: `await store.set(feature, scopeKey, value)`
resolverReturns(k, rv) ==
  Request([k EXCEPT !.val = rv, !.resolver = NoResolver,
                    !.invoked[Len(k.invoked)].result = rv],
          "set")

\* the store serves the request of call k
storeServed(d, k, date) ==
  LET scopeKey == ScopeKeyOf(k)
      served == [k EXCEPT !.pc = "resume"]
  IN CASE k.request = "get" ->
            [data |-> d,
             call |-> [served EXCEPT !.val = ArrayDriver_get(d, k.features[1], scopeKey)]]
       [] k.request = "getMany" ->
            [data |-> d,
             call |-> [served EXCEPT !.stored =
                         ArrayDriver_getMany(d, IF k.op = "values" THEN k.todo
                                                ELSE k.features, scopeKey)]]
       [] k.request = "set" ->
            [data |-> ArrayDriver_set(d, CurrentFeature(k), scopeKey, k.val, date),
             call |-> served]
       [] k.request = "forget" ->
            [data |-> ArrayDriver_forget(d, k.features[1], scopeKey), call |-> served]
       [] k.request = "purge" ->
            [data |-> ArrayDriver_purge(d, k.features[1]), call |-> served]
       [] k.request = "purgeAll" ->
            [data |-> ArrayDriver_purgeAll(d), call |-> served]

\* a value() that invokes the resolver again when its store.set throws
storeStepRetry(d, k, thrown, date) ==
  IF thrown
  THEN [data |-> d,
        call |-> IF k.op = "value" /\ k.request = "set"
                 THEN [k EXCEPT !.pc = "resolver",
                                !.resolver = EitherResolver,
                                !.storeCalls = SubSeq(@, 1, Len(@) - 1)]
                 ELSE Finish(k, "StoreError")]
  ELSE storeServed(d, k, date)

\* the awaited store request is served, or throws: the operation ends with
\* the error
storeStep(d, k, thrown, date) ==
  IF thrown
  THEN [data |-> d, call |-> Finish(k, "StoreError")]
  ELSE storeServed(d, k, date)

\* FlagManager.value up to its first await
value_begin(c, k) ==
  LET ck == cacheKey(k.features[1], ScopeKeyOf(k))
  IN IF cacheHit(c, ck)
     THEN Finish([k EXCEPT !.ret = MapGet(c, ck)], "ok")
     ELSE Request(k, "get")

\* a value() that looks into the cache again before it resolves
value_resumeRecheck(c, k, defs, cls) ==
  LET ck == cacheKey(k.features[1], ScopeKeyOf(k))
  IN IF k.request = "get"
     THEN IF k.val # JsUndefined
          THEN [cache |-> MapSet(c, ck, k.val),
                call |-> Finish([k EXCEPT !.ret = k.val], "ok")]
          ELSE IF cacheHit(c, ck)
          THEN [cache |-> c, call |-> Finish([k EXCEPT !.ret = MapGet(c, ck)], "ok")]
          ELSE [cache |-> c, call |-> Invoke(k, defs, cls)]
     ELSE [cache |-> MapSet(c, ck, k.val),
           call |-> Finish([k EXCEPT !.ret = k.val,
                                     !.events = Append(@, ValueEvent("flag:resolved",
                                                  k.features[1], ScopeKeyOf(k), k.val))],
                           "ok")]

\* FlagManager.value resumed after store.get, and after store.set
value_resume(c, k, defs, cls) ==
  LET ck == cacheKey(k.features[1], ScopeKeyOf(k))
  IN IF k.request = "get"
     THEN IF k.val # JsUndefined
          THEN [cache |-> MapSet(c, ck, k.val),
                call |-> Finish([k EXCEPT !.ret = k.val], "ok")]
          ELSE [cache |-> c, call |-> Invoke(k, defs, cls)]
     ELSE [cache |-> MapSet(c, ck, k.val),
           call |-> Finish([k EXCEPT !.ret = k.val,
                                     !.events = Append(@, ValueEvent("flag:resolved",
                                                  k.features[1], ScopeKeyOf(k), k.val))],
                           "ok")]

\* FlagManager.activate and FlagManager.deactivate up to their await
write_begin(k) ==
  Request([k EXCEPT !.val = IF k.op = "deactivate" THEN JsFalse
                            ELSE IF k.arg # JsUndefined THEN k.arg ELSE JsTrue],
          "set")

\* FlagManager.activate and FlagManager.deactivate resumed after store.set
write_resume(c, k) ==
  [cache |-> MapSet(c, cacheKey(k.features[1], ScopeKeyOf(k)), k.val),
   call |-> Finish([k EXCEPT !.events = Append(@, ValueEvent("flag:updated",
                                         k.features[1], ScopeKeyOf(k), k.val))],
                   "ok")]

\* FlagManager.forget, purge, purgeAll up to their await
remove_begin(k) == Request(k, k.op)

\* FlagManager.forget, purge, purgeAll resumed after the store's deletion
remove_resume(c, k) ==
  CASE k.op = "forget" ->
         [cache |-> MapDelete(c, cacheKey(k.features[1], ScopeKeyOf(k))),
          call |-> Finish([k EXCEPT !.events =
                             Append(@, DeletedEvent(k.features[1], ScopeKeyOf(k)))],
                          "ok")]
    [] k.op = "purge" ->
         [cache |-> [x \in {y \in MapKeys(c) :
                              ~StartsWith(y, k.features[1] \o <<NUL>>)} |-> c[x]],
          call |-> Finish([k EXCEPT !.events =
                             Append(@, DeletedEvent(k.features[1], Star))],
                          "ok")]
    [] k.op = "purgeAll" ->
         [cache |-> EmptyMap,
          call |-> Finish([k EXCEPT !.events = Append(@, DeletedEvent(Star, Star))],
                          "ok")]

\* FlagManager.values up to its first await
values_begin(c, k) ==
  LET scopeKey == ScopeKeyOf(k)
      hit(f) == cacheHit(c, cacheKey(f, scopeKey))
      hits == {k.features[i] : i \in {j \in DOMAIN k.features : hit(k.features[j])}}
      result == [f \in hits |-> MapGet(c, cacheKey(f, scopeKey))]
      misses == SelectSeq(k.features, LAMBDA f : ~hit(f))
  IN IF misses = <<>>
     THEN Finish([k EXCEPT !.result = result], "ok")
     ELSE Request([k EXCEPT !.result = result, !.todo = misses], "getMany")

\* the head of the loop over stillMissing of FlagManager.values
values_next(k, defs, cls) ==
  IF k.todo = <<>> THEN Finish(k, "ok") ELSE Invoke(k, defs, cls)

\* FlagManager.values resumed after getMany, and after a store.set
values_resume(c, k, defs, cls) ==
  LET scopeKey == ScopeKeyOf(k)
  IN IF k.request = "getMany"
     THEN [cache |-> cacheStored(c, k.todo, k.stored, scopeKey),
           call |-> values_next(
                      [k EXCEPT !.result = [f \in DOMAIN k.result \cup DOMAIN k.stored |->
                                              IF f \in DOMAIN k.stored THEN k.stored[f]
                                              ELSE k.result[f]],
                                !.todo = SelectSeq(k.todo,
                                                   LAMBDA f : f \notin DOMAIN k.stored)],
                      defs, cls)]
     ELSE [cache |-> MapSet(c, cacheKey(Head(k.todo), scopeKey), k.val),
           call |-> values_next(
                      [k EXCEPT !.result = MapSet(@, Head(k.todo), k.val),
                                !.events = Append(@, ValueEvent("flag:resolved",
                                                       Head(k.todo), scopeKey, k.val)),
                                !.todo = Tail(k.todo)],
                      defs, cls)]

\* the head of the loop over scopes of FlagManager.load
load_begin(k) ==
  IF k.si > Len(k.scopes) THEN Finish(k, "ok") ELSE Request(k, "getMany")

\* the head of the loop over the features not stored of FlagManager.load
load_next(k, defs, cls) ==
  IF k.todo = <<>>
  THEN load_begin([k EXCEPT !.si = @ + 1])
  ELSE Invoke(k, defs, cls)

\* FlagManager.load resumed after getMany, and after a store.set
load_resume(c, k, defs, cls) ==
  LET scopeKey == ScopeKeyOf(k)
  IN IF k.request = "getMany"
     THEN [cache |-> cacheStored(c, k.features, k.stored, scopeKey),
           call |-> load_next(
                      [k EXCEPT !.todo = SelectSeq(k.features,
                                                   LAMBDA f : f \notin DOMAIN k.stored)],
                      defs, cls)]
     ELSE [cache |-> MapSet(c, cacheKey(Head(k.todo), scopeKey), k.val),
           call |-> load_next([k EXCEPT !.todo = Tail(k.todo)], defs, cls)]

\* the call resumed after the store has served it
resume(c, k, defs, cls) ==
  CASE k.op = "value" -> value_resume(c, k, defs, cls)
    [] k.op \in {"activate", "deactivate"} -> write_resume(c, k)
    [] k.op \in {"forget", "purge", "purgeAll"} -> remove_resume(c, k)
    [] k.op = "values" -> values_resume(c, k, defs, cls)
    [] k.op = "load" -> load_resume(c, k, defs, cls)

\* the explicit writes after the store has served the request of call k
Rewritten(w, k) ==
  CASE k.op \in {"activate", "deactivate"} ->
         MapSet(w, <<k.features[1], ScopeKeyOf(k)>>, k.val)
    [] k.op = "forget" -> Unwrite(w, {<<k.features[1], ScopeKeyOf(k)>>})
    [] k.op = "purge" -> Unwrite(w, {q \in DOMAIN w : q[1] = k.features[1]})
    [] k.op = "purgeAll" -> EmptyMap
    [] OTHER -> w

\* an explicit write that ends is seen by the value() calls of its pair that
\* were made before it and are awaiting their resolver
Overtake(ks, i) ==
  [j \in DOMAIN ks |->
     IF /\ j < i
        /\ ks[i].pc = "done" /\ ks[i].outcome = "ok"
        /\ ks[i].op \in {"activate", "deactivate"}
        /\ ks[j].op = "value" /\ ks[j].pc = "resolver"
        /\ ks[j].features = ks[i].features
        /\ ScopeKeyOf(ks[j]) = ScopeKeyOf(ks[i])
     THEN [ks[j] EXCEPT !.overtaken = <<ks[i].val>>]
     ELSE ks[j]]

\* One pair shared by the calls; a resolver whose result differs from call
\* to call.
OneShared ==
  [features |-> {FeatA},
   scopes |-> {UndefinedScope},
   batches |-> {<<FeatA>>},
   loadScopes |-> {<<UndefinedScope>>},
   defineArgs |-> {EitherResolver},
   classes |-> {},
   activateArgs |-> {JsVariant}]

\* a call is made: it runs to its first await (c is the cache, k the call,
\* as that leaves them)
Made(c, k) ==
  LET s == storeAccess(k, config, stores, extensions, made)
  IN /\ Len(callsMade) < MaxCalls
     /\ Reached(s)
     /\ callsMade' = Append(callsMade,
                            IF s.threw
                            THEN Finish([k EXCEPT !.storeCalls = <<>>], s.error)
                            ELSE k)
     /\ cache' = c
     /\ UNCHANGED <<definitions, classFeatures, data, now, written, order>>

CallValue(U) ==
  \E feature \in U.features, scope \in U.scopes :
    Made(cache, value_begin(cache, Call("value", <<feature>>, <<scope>>, JsUndefined)))

CallValues(U) ==
  \E features \in U.batches, scope \in U.scopes :
    Made(cache, values_begin(cache, Call("values", features, <<scope>>, JsUndefined)))

CallLoad(U) ==
  \E features \in U.batches, scopes \in U.loadScopes :
    Made(cache, load_begin(Call("load", features, scopes, JsUndefined)))

CallActivate(U) ==
  \E feature \in U.features, val \in U.activateArgs, scope \in U.scopes :
    Made(cache, write_begin(Call("activate", <<feature>>, <<scope>>, val)))

CallDeactivate(U) ==
  \E feature \in U.features, scope \in U.scopes :
    Made(cache, write_begin(Call("deactivate", <<feature>>, <<scope>>, JsUndefined)))

CallForget(U) ==
  \E feature \in U.features, scope \in U.scopes :
    Made(cache, remove_begin(Call("forget", <<feature>>, <<scope>>, JsUndefined)))

CallPurge(U) ==
  \E feature \in U.features :
    Made(cache, remove_begin(Call("purge", <<feature>>, <<UndefinedScope>>, JsUndefined)))

CallPurgeAll ==
  Made(cache, remove_begin(Call("purgeAll", <<>>, <<UndefinedScope>>, JsUndefined)))

\* the store serves the request of call i, or throws
StoreStepOf(i) ==
  /\ i \in DOMAIN callsMade
  /\ callsMade[i].pc = "store"
  /\ \E thrown \in BOOLEAN :
       LET r == storeStep(data, callsMade[i], thrown, now)
       IN /\ data' = r.data
          /\ callsMade' = [callsMade EXCEPT ![i] = r.call]
          /\ order' = Iteration(order, r.data,
                                IF ~thrown /\ callsMade[i].request = "set"
                                THEN <<ArrayDriver_key(CurrentFeature(callsMade[i]),
                                                       ScopeKeyOf(callsMade[i]))>>
                                ELSE <<>>)
          /\ written' = IF thrown THEN written ELSE Rewritten(written, callsMade[i])
  /\ UNCHANGED <<definitions, classFeatures, cache, now, drivers>>

\* the resolver that call i awaits returns
ResolverReturnsOf(i) ==
  /\ i \in DOMAIN callsMade
  /\ callsMade[i].pc = "resolver"
  /\ \E rv \in Returns(callsMade[i].resolver, ScopeKeyOf(callsMade[i])) :
       callsMade' = [callsMade EXCEPT ![i] = resolverReturns(callsMade[i], rv)]
  /\ UNCHANGED <<definitions, classFeatures, cache, data, now, written, drivers,
                 order>>

\* call i is resumed after its store request and runs to its next await, or
\* to its end
ResumeOf(i) ==
  /\ i \in DOMAIN callsMade
  /\ callsMade[i].pc = "resume"
  /\ LET r == resume(cache, callsMade[i], definitions, classFeatures)
     IN /\ cache' = r.cache
        /\ callsMade' = Overtake([callsMade EXCEPT ![i] = r.call], i)
  /\ UNCHANGED <<definitions, classFeatures, data, now, written, drivers, order>>

StoreStep == \E i \in 1..MaxCalls : StoreStepOf(i)

ResolverReturns == \E i \in 1..MaxCalls : ResolverReturnsOf(i)

Resume == \E i \in 1..MaxCalls : ResumeOf(i)

\* the manager with calls that overlap
NextConcurrent ==
  \/ Define(OneShared)
  \/ CallValue(OneShared)
  \/ CallValues(OneShared)
  \/ CallLoad(OneShared)
  \/ CallActivate(OneShared)
  \/ CallDeactivate(OneShared)
  \/ CallForget(OneShared)
  \/ CallPurge(OneShared)
  \/ CallPurgeAll
  \/ StoreStep
  \/ ResolverReturns
  \/ Resume

SpecConcurrent == Init /\ [][NextConcurrent]_vars

\* every store request and every resolver call made ends, and every call
\* that can be resumed is resumed
SpecConcurrentFair ==
  /\ SpecConcurrent
  /\ \A i \in 1..MaxCalls :
       /\ WF_vars(StoreStepOf(i))
       /\ WF_vars(ResolverReturnsOf(i))
       /\ WF_vars(ResumeOf(i))


(***************************************************************************)
(* Properties of overlapping calls.                                        *)
(***************************************************************************)
\* every call made has ended
AllDone == \A i \in DOMAIN callsMade : callsMade[i].pc = "done"

\* what a value() that returned has done, by the store requests it made
ByItself(k) ==
  CASE k.storeCalls = <<>> ->
         k.invoked = <<>> /\ k.events = <<>>
    [] k.storeCalls = <<"get">> ->
         k.val # JsUndefined /\ k.ret = k.val /\ k.invoked = <<>> /\ k.events = <<>>
    [] k.storeCalls = <<"get", "set">> ->
         /\ Len(k.invoked) = 1
         /\ k.ret = k.invoked[1].result
         /\ k.events = <<ValueEvent("flag:resolved", k.features[1], ScopeKeyOf(k),
                                    k.ret)>>
    [] OTHER -> FALSE

\* C35: no call of value() relies on another one.  A value() that returns
\* was served from the cache, or from the store by a record that holds a
\* value, or else has itself invoked the resolver once, written the store
\* and the cache and emitted its own resolved notification, whatever other
\* calls did in the meantime; so two overlapping calls for an unresolved
\* pair can both resolve.
C35_NoAtMostOneResolver ==
  \A i \in DOMAIN callsMade :
    LET k == callsMade[i]
    IN (k.op = "value" /\ k.pc = "done" /\ k.outcome = "ok") => ByItself(k)

\* two value() calls for the same pair have both missed the cache and the
\* store, both invoked the resolver, with different results, both written,
\* and two resolved notifications were emitted
C35_Witness ==
  /\ Len(callsMade) = 2
  /\ AllDone
  /\ \A i \in 1..2 :
       /\ callsMade[i].op = "value"
       /\ callsMade[i].outcome = "ok"
       /\ callsMade[i].storeCalls = <<"get", "set">>
       /\ Len(callsMade[i].invoked) = 1
       /\ Len(callsMade[i].events) = 1
  /\ callsMade[1].features = callsMade[2].features
  /\ callsMade[1].scopes = callsMade[2].scopes
  /\ callsMade[1].ret = JsTrue
  /\ callsMade[2].ret = JsFalse

\* C36 (as stated): once all the overlapping operations on a pair have
\* ended, the cache entry of the pair, if any, equals the value of its store
\* record, and no pair has a cache entry without a store record.
C36_LastWriterWinsOnBoth == AllDone => Coherent(cache, data)

\* C38 (as stated): when an activate or deactivate of a pair has ended while
\* a value() of that pair, begun earlier, was still resolving, then after
\* both have ended the store record and the cache entry of the pair hold the
\* explicitly written value.
C38_ExplicitWriteNotLost ==
  \A i \in DOMAIN callsMade :
    LET k == callsMade[i]
        key == ArrayDriver_key(k.features[1], ScopeKeyOf(k))
    IN (AllDone /\ k.op = "value" /\ k.overtaken # <<>>) =>
         /\ MapHas(data, key)
         /\ data[key].value = k.overtaken[1]
         /\ Entry(cache, key) = k.overtaken

\* call i has been made and has ended
Ended(i) == i \in DOMAIN callsMade /\ callsMade[i].pc = "done"

\* the resolver calls and the store requests of a call are at most those
\* its arguments ask for: one resolver call and one set per feature
\* occurrence and scope, one read per scope
Bounded(k) ==
  /\ Len(k.invoked) <= Len(k.features) * Len(k.scopes)
  /\ Len(k.storeCalls) <= Len(k.scopes) + Len(k.features) * Len(k.scopes)

\* C40: every call ends, given that every store request and every resolver
\* call it awaits ends; it makes at most one resolver call per requested
\* feature occurrence and scope and repeats nothing; a call that has not
\* ended awaits the store or the resolver, never another call: its next
\* step can be taken whatever the other calls do.
C40_EveryCallEnds ==
  /\ [](\A i \in DOMAIN callsMade :
          /\ Bounded(callsMade[i])
          /\ callsMade[i].pc \in {"store", "resolver", "resume", "done"}
          /\ callsMade[i].pc # "done" =>
               ENABLED (StoreStepOf(i) \/ ResolverReturnsOf(i) \/ ResumeOf(i)))
  /\ \A i \in 1..MaxCalls :
       [](i \in DOMAIN callsMade => <>Ended(i))

\* a load() that resolved and a call whose store request threw have ended
C40_Witness ==
  /\ Len(callsMade) = 2
  /\ AllDone
  /\ \E i \in 1..2 : callsMade[i].op = "load" /\ Len(callsMade[i].invoked) = 1
                     /\ callsMade[i].outcome = "ok"
  /\ \E i \in 1..2 : callsMade[i].outcome = "StoreError"


====
